---- MODULE Spec2Model ----
(***************************************************************************)
(* Turn-taking and streaming-response pipeline of the voice agent          *)
(* (src/server.js): the transcript trigger policy with barge-in, the       *)
(* pipelined turn (handleUserMessage + startTTSWorker), the call-start     *)
(* greeting and the external-action result callback, for one session.      *)
(*                                                                         *)
(* One action is one run of a handler between two suspension points        *)
(* (awaits); the process is single-threaded, so such a run is atomic.      *)
(* Texts are sequences of one-character strings.  Time is Date.now() in    *)
(* milliseconds.  Confidence is in hundredths (0.85 is 85).                *)
(***************************************************************************)
EXTENDS Integers, Sequences, FiniteSets, TLC

\* ---------------------------------------------------------------- bounds
MaxTurns == 2        \* turns (handleUserMessage invocations) started in a run
DeepTurns == 1       \* turns started in a run that follows the whole pipeline
MaxChunks == 2       \* chunks one generation stream yields
MaxTicks == 3        \* clock ticks in a run
MaxCallbacks == 1    \* result callbacks received in a run
MaxAudio == 22       \* audio chunks received before and after a call start
MaxWaits == 3        \* half grace periods that pass in a run
MaxBadAudio == 1     \* audio chunks that do not decode

\* ------------------------------------------------------ program constants
BargeInMinLen == 5       \* text.trim().length > 5
CooldownMs == 500        \* timeSinceLastTrigger < 500
LongTextLen == 15        \* text.length > 15
EndpointConfidence == 85 \* confidence > 0.85
StableConfidence == 80   \* confidence > 0.8
AudioBufferCap == 20     \* audioBuffer.length > 20
GraceMs == 60000         \* timeSinceDisconnect > 60 * 1000
IdleMs == 1800000        \* (now - session.lastActivity) > 30 * 60 * 1000

TickMs == CooldownMs \div 2          \* the clock's step: half a cooldown window
StartTime == 2 * CooldownMs          \* Date.now() at the start of a run
WaitMs == GraceMs \div 2             \* a long step of the clock: half a grace period

\* ------------------------------------------------------------------ texts
Whitespace == {" "}
Terminal == {".", "!", "?"}

T_EMPTY == << >>
T_BLANK == <<" ", " ", " ", " ", " ", " ">>
T_STOP == <<"s", "t", "o", "p">>
T_WAIT == <<"w", "a", "i", "t", " ", "s", "t", "o", "p">>
T_LONG == <<"w", "a", "i", "t", " ", "s", "t", "o", "p", " ", "n", "o", "w", " ", "o", "k", ".">>

Texts == {T_EMPTY, T_BLANK, T_STOP, T_WAIT, T_LONG}
Confidences == {StableConfidence, EndpointConfidence, 90}

\* transcript events: { text, is_final, speech_final, confidence }
Events ==
  [text : Texts, is_final : BOOLEAN, speech_final : BOOLEAN, confidence : Confidences]

RECURSIVE TrimStart(_)
TrimStart(s) ==
  IF s # << >> /\ Head(s) \in Whitespace THEN TrimStart(Tail(s)) ELSE s

RECURSIVE TrimEnd(_)
TrimEnd(s) ==
  IF s # << >> /\ s[Len(s)] \in Whitespace
  THEN TrimEnd(SubSeq(s, 1, Len(s) - 1)) ELSE s

\* String.prototype.trim
Trim(s) == TrimEnd(TrimStart(s))

\* String.prototype.startsWith
StartsWith(s, p) == Len(p) <= Len(s) /\ SubSeq(s, 1, Len(p)) = p

\* /[.!?]$/.test(text)
EndsWithTerminal(s) == s # << >> /\ s[Len(s)] \in Terminal

\* ----------------------------------------------------------------- state
VARIABLES
  now,                    \* Date.now()
  callPc,                 \* position of the call-start handler
  isCallActive,           \* session.isCallActive
  prerecordedGreeting,    \* whether a greeting file was loaded at startup
  transcriptBuffer,       \* closure state of the transcript handler
  isProcessing,
  aiSpeaking,
  currentPipeline,        \* 0 is null, otherwise the turn whose controller it is
  lastProcessedText,
  lastTriggerTime,
  earlier,                \* the closure of the handler an earlier call-start installed
  nextTurn,               \* number of turns started so far
  turns,                  \* per turn: handleUserMessage and its TTS worker
  synth,                  \* synthesis requests in flight at the provider
  conversationHistory,    \* session.conversationHistory
  pendingWorkspaceAction, \* session.pendingWorkspaceAction
  dispatched,             \* delegated requests sent to the external executor
  cbPc,                   \* position of the result-callback handler
  cbText,                 \* its responseText
  nCallbacks,             \* result callbacks received so far
  cbLog,                  \* what the handler of the latest callback did, in order
  registered,             \* activeSessions has the session
  connected,              \* io.sockets.sockets has the session's socket
  disconnectedAt,         \* session.disconnectedAt, 0 when unset
  connPc,                 \* the connection handler: "new", "served" or "refused"
  connErrors,             \* 'error' notifications of the connection handler
  lastActivity,           \* session.lastActivity
  deepgram,               \* session.deepgram: "null", "connecting", "open", "closed"
  audioBuffer,            \* audio chunks held until the transcription connection opens
  deepgramReady,          \* the buffer has been flushed in this call
  audioChunkCount,        \* audio chunks received; a chunk is named by its number
  forwarded,              \* chunks sent to the transcription provider, in order
  cbTarget,               \* id of the session the latest callback resolved to
  peerPc,                 \* another client's connection: "new", "served" or "gone"
  peerRegistered,         \* activeSessions has the other client's session
  peerFirst,              \* its entry was inserted before this session's entry
  peerPending,            \* its pendingWorkspaceAction
  peerHistory,            \* its conversationHistory
  peerDisconnectedAt,     \* its disconnectedAt, 0 when unset
  obs                     \* observations of the run the properties read

vars == << now, callPc, isCallActive, prerecordedGreeting, transcriptBuffer,
           isProcessing, aiSpeaking, currentPipeline, lastProcessedText,
           lastTriggerTime, earlier, nextTurn, turns, synth, conversationHistory,
           pendingWorkspaceAction, dispatched, cbPc, cbText, nCallbacks, cbLog,
           registered, connected, disconnectedAt, connPc, connErrors,
           lastActivity, deepgram, audioBuffer, deepgramReady, audioChunkCount,
           forwarded, cbTarget, peerPc, peerRegistered, peerFirst, peerPending,
           peerHistory, peerDisconnectedAt, obs >>

closureVars == << transcriptBuffer, isProcessing, aiSpeaking, currentPipeline,
                  lastProcessedText, lastTriggerTime, earlier >>
callVars == << callPc, isCallActive, prerecordedGreeting >>
cbVars == << cbPc, cbText, nCallbacks, cbLog, cbTarget >>
sessVars == << registered, connected, disconnectedAt >>
connVars == << connPc, connErrors, lastActivity >>
audioVars == << deepgram, audioBuffer, deepgramReady, audioChunkCount, forwarded >>
peerVars == << peerPc, peerRegistered, peerFirst, peerPending, peerHistory,
              peerDisconnectedAt >>
lineVars == << connVars, audioVars, peerVars >>

Turns == 1..MaxTurns
NoPipeline == 0
NoToolCall == [name |-> "none", arguments |-> << >>]   \* toolCallDetected = null
\* pendingWorkspaceAction unset
NoAction == [toolCallId |-> 0, args |-> << >>, timestamp |-> 0]
NoSummary == << >>                                     \* a callback without summary
SessionId == "s1"
PeerId == "s2"
UnknownId == "s9"
NoSession == "none"

\* contents of history entries and replies that are fixed strings of the code
GREETING == <<"<greeting>">>
APOLOGY == <<"<sorry>">>
Acknowledgments == <<"<on-it>", "<let-me-check>", "<sure-thing>", "<got-it>">>
Acknowledgment(i) == << Acknowledgments[i] >>
SystemResult(summary) == <<"<system-result>">> \o summary
TASK_FAILED == <<"<issue>">>
TASK_DONE == <<"<all-done>">>

NewTurn ==
  [ pc |-> "new", aborted |-> FALSE, ttsQueue |-> << >>, closed |-> FALSE,
    wpc |-> "new", detector |-> << >>, fullResponse |-> << >>,
    toolCallDetected |-> NoToolCall, failed |-> FALSE, nChunks |-> 0,
    ack |-> 0, pushed |-> 0, audioOut |-> << >>, lateOut |-> FALSE,
    streamed |-> << >>,        \* the text chunks the stream yielded, each once
    streamCall |-> NoToolCall, \* the function call the stream finished with
    notices |-> << >>,         \* acknowledgment and apology texts emitted
    appended |-> << >>,        \* contents of the assistant entries appended
    errorOut |-> 0,            \* 'error' notifications emitted by the turn
    synthFailed |-> {} ]       \* sentences whose synthesis threw

NoObs ==
  [ trigAt |-> 0,              \* time of the most recent trigger
    trigText |-> << >>,        \* text of the most recent trigger
    bargedSince |-> FALSE,     \* a barge-in happened since the most recent trigger
    completedSince |-> FALSE,  \* a non-aborted turn returned since then
    evSinceTrig |-> FALSE,     \* an event was handled since the triggering event
    bargeIns |-> 0 ]           \* 'barge-in' signals emitted to the client

\* no earlier call-start: no other handler, no turn started by one
NoEarlier ==
  [ replaced |-> FALSE,        \* a later call-start has replaced a handler
    open |-> FALSE,            \* its transcription connection still delivers events
    transcriptBuffer |-> << >>, isProcessing |-> FALSE, aiSpeaking |-> FALSE,
    currentPipeline |-> NoPipeline, lastProcessedText |-> << >>,
    lastTriggerTime |-> 0,
    turns |-> {} ]             \* the turns started by the earlier handler

\* the server has started; no connection has been accepted yet
Booted ==
  /\ now = StartTime
  /\ callPc = "none"
  /\ isCallActive = FALSE
  /\ prerecordedGreeting \in BOOLEAN
  /\ transcriptBuffer = << >>
  /\ isProcessing = FALSE
  /\ aiSpeaking = FALSE
  /\ currentPipeline = NoPipeline
  /\ lastProcessedText = << >>
  /\ lastTriggerTime = 0
  /\ earlier = NoEarlier
  /\ nextTurn = 0
  /\ turns = [t \in Turns |-> NewTurn]
  /\ synth = {}
  /\ conversationHistory = << >>
  /\ pendingWorkspaceAction = NoAction
  /\ dispatched = {}
  /\ cbPc = "idle"
  /\ cbText = << >>
  /\ nCallbacks = 0
  /\ cbLog = << >>
  /\ disconnectedAt = 0
  /\ connErrors = 0
  /\ deepgram = "null"
  /\ audioBuffer = << >>
  /\ deepgramReady = FALSE
  /\ audioChunkCount = 0
  /\ forwarded = << >>
  /\ cbTarget = NoSession
  /\ peerPc = "new"
  /\ peerRegistered = FALSE
  /\ peerFirst = FALSE
  /\ peerPending = NoAction
  /\ peerHistory = << >>
  /\ peerDisconnectedAt = 0
  /\ obs = NoObs

\* the state after a client has connected and its session has been constructed
Init ==
  /\ Booted
  /\ registered = TRUE
  /\ connected = TRUE
  /\ connPc = "served"
  /\ lastActivity = StartTime

\* A turn is live from the call of handleUserMessage until it returns.
Running(t) == turns[t].pc \notin {"new", "done"}

\* ----------------------------------------------------------------- clock
Tick ==
  /\ now < StartTime + MaxTicks * TickMs
  /\ now' = now + TickMs
  /\ UNCHANGED << callVars, closureVars, nextTurn, turns, synth,
                  conversationHistory, pendingWorkspaceAction, dispatched,
                  cbVars, sessVars, lineVars, obs >>

\* ------------------------------------------------------------ connection
\* a long step of the clock: half a grace period, or once a whole idle window
Elapse(ms) ==
  /\ IF ms = WaitMs
     THEN ((now - StartTime) % IdleMs) \div WaitMs < MaxWaits
     ELSE now - StartTime < IdleMs
  /\ now' = now + ms
  /\ UNCHANGED << callVars, closureVars, nextTurn, turns, synth,
                  conversationHistory, pendingWorkspaceAction, dispatched,
                  cbVars, sessVars, lineVars, obs >>

\* the socket has the handlers of a served connection whatever happened
HandlersInstalled_Always == TRUE

\* call-start, audio-stream, call-end and disconnect are handled once the
\* connection handler has run past the construction of the session
HandlersInstalled == connPc = "served"

\* io.on('connection'): the session is constructed and registered; when a
\* service cannot be constructed, one 'error' is emitted and the handler returns.
Connection(ok) ==
  /\ connPc = "new"
  /\ connected' = TRUE
  /\ IF ok
     THEN /\ connPc' = "served"
          /\ registered' = TRUE
          /\ peerFirst' = peerRegistered
          /\ lastActivity' = now
          /\ connErrors' = connErrors
     ELSE /\ connPc' = "refused"
          /\ connErrors' = connErrors + 1
          /\ UNCHANGED << registered, peerFirst, lastActivity >>
  /\ UNCHANGED << now, callVars, closureVars, nextTurn, turns, synth,
                  conversationHistory, pendingWorkspaceAction, dispatched,
                  cbVars, disconnectedAt, audioVars, peerPc, peerRegistered,
                  peerPending, peerHistory, peerDisconnectedAt, obs >>

\* ------------------------------------------------- call start and greeting
\* activeSessions.get(id): the registry holds the session of this model from
\* its connection until it is deleted, and the session of another client.
Registered(id) ==
  \/ registered /\ id = SessionId
  \/ peerRegistered /\ id = PeerId

\* the socket lookup with the disconnected socket still found
SocketOpen_Always(id) == id \in {SessionId, PeerId}

\* io.sockets.sockets.get(id)
SocketOpen(id) ==
  \/ connected /\ id = SessionId
  \/ peerPc = "served" /\ id = PeerId

\* activeSessions.entries(): the ids of the registry in insertion order
Entries ==
  LET own == IF registered THEN << SessionId >> ELSE << >>
      peer == IF peerRegistered THEN << PeerId >> ELSE << >>
  IN IF peerFirst THEN peer \o own ELSE own \o peer

\* sess.pendingWorkspaceAction of a session of the registry
PendingOf(id) == IF id = SessionId THEN pendingWorkspaceAction ELSE peerPending

\* the scan taking the last session with a pending action
RECURSIVE FirstPending_Last(_)
FirstPending_Last(entries) ==
  IF entries = << >> THEN NoSession
  ELSE IF PendingOf(entries[Len(entries)]) # NoAction THEN entries[Len(entries)]
  ELSE FirstPending_Last(SubSeq(entries, 1, Len(entries) - 1))

\* for (const [id, sess] of entries) if (sess.pendingWorkspaceAction) ... break
RECURSIVE FirstPending(_)
FirstPending(entries) ==
  IF entries = << >> THEN NoSession
  ELSE IF PendingOf(Head(entries)) # NoAction THEN Head(entries)
  ELSE FirstPending(Tail(entries))

\* actualSessionId: the exact match, else the result of the fallback scan
Resolved(sessionId) ==
  IF Registered(sessionId) THEN sessionId ELSE FirstPending(Entries)

\* The transcription connection delivers events once connect() has resolved
\* and until it is closed.
DeepgramOpen == deepgram = "open"

\* session.deepgram.disconnect(), when session.deepgram is set
DeepgramDisconnected == IF deepgram = "null" THEN "null" ELSE "closed"

CallStart ==
  /\ connected
  /\ HandlersInstalled
  /\ callPc = "none"
  /\ isCallActive' = TRUE
  /\ audioChunkCount' = 0
  /\ audioBuffer' = << >>
  /\ deepgramReady' = FALSE
  /\ deepgram' = "connecting"
  /\ transcriptBuffer' = << >>
  /\ isProcessing' = FALSE
  /\ aiSpeaking' = FALSE
  /\ currentPipeline' = NoPipeline
  /\ lastProcessedText' = << >>
  /\ lastTriggerTime' = 0
  /\ earlier' = earlier
  /\ callPc' = "connecting"
  /\ UNCHANGED << now, prerecordedGreeting, nextTurn, turns, synth,
                  conversationHistory, pendingWorkspaceAction, dispatched,
                  cbVars, peerVars, sessVars, connVars, forwarded, obs >>

\* connect() resolved: the greeting is recorded and spoken.
CallConnected ==
  /\ callPc = "connecting"
  /\ deepgram' = IF deepgram = "connecting" THEN "open" ELSE deepgram
  /\ conversationHistory' =
       Append(conversationHistory, [role |-> "assistant", content |-> GREETING])
  /\ IF prerecordedGreeting
     THEN callPc' = "ready" /\ synth' = synth
     ELSE /\ callPc' = "greeting"
          /\ synth' = synth \cup {[caller |-> "greeting", turn |-> 0, idx |-> 0]}
  /\ UNCHANGED << now, isCallActive, prerecordedGreeting, closureVars, nextTurn,
                  turns, pendingWorkspaceAction, dispatched, cbVars, peerVars, sessVars,
                  connVars, audioBuffer, deepgramReady, audioChunkCount,
                  forwarded, obs >>

\* connect() rejected: the catch block reports the failure.
CallConnectFailed ==
  /\ callPc = "connecting"
  /\ callPc' = "failed"
  /\ deepgram' = DeepgramDisconnected
  /\ UNCHANGED << now, isCallActive, prerecordedGreeting, closureVars, nextTurn,
                  turns, synth, conversationHistory, pendingWorkspaceAction,
                  dispatched, cbVars, peerVars, sessVars, connVars, audioBuffer,
                  deepgramReady, audioChunkCount, forwarded, obs >>

\* The greeting's synthesis returned (audio emitted) or failed (error emitted).
GreetingDone(ok) ==
  /\ callPc = "greeting"
  /\ callPc' = "ready"
  /\ synth' = synth \ {[caller |-> "greeting", turn |-> 0, idx |-> 0]}
  /\ UNCHANGED << now, isCallActive, prerecordedGreeting, closureVars, nextTurn,
                  turns, conversationHistory, pendingWorkspaceAction, dispatched,
                  cbVars, sessVars, lineVars, obs >>

\* The transcription connection is lost.
DeepgramDrop ==
  /\ deepgram = "open"
  /\ deepgram' = "closed"
  /\ UNCHANGED << now, callVars, closureVars, nextTurn, turns, synth,
                  conversationHistory, pendingWorkspaceAction, dispatched,
                  cbVars, peerVars, sessVars, connVars, audioBuffer, deepgramReady,
                  audioChunkCount, forwarded, obs >>

\* socket.on('call-start') received again on a connection whose call is
\* established.  The handler runs as the first time: a new transcription
\* service and a new closure replace the ones in use.  Nothing in it closes the
\* service it replaces or removes that service's transcript handler, so the
\* earlier handler keeps its own closure, and keeps receiving events when no
\* call-end closed its connection.  The model keeps one earlier handler.
CallStartAgain ==
  /\ connected
  /\ HandlersInstalled
  /\ callPc = "ready"
  /\ ~earlier.replaced
  /\ earlier' = [ replaced |-> TRUE,
                  open |-> DeepgramOpen,
                  transcriptBuffer |-> transcriptBuffer,
                  isProcessing |-> isProcessing,
                  aiSpeaking |-> aiSpeaking,
                  currentPipeline |-> currentPipeline,
                  lastProcessedText |-> lastProcessedText,
                  lastTriggerTime |-> lastTriggerTime,
                  turns |-> 1..nextTurn ]
  /\ isCallActive' = TRUE
  /\ audioChunkCount' = 0
  /\ audioBuffer' = << >>
  /\ deepgramReady' = FALSE
  /\ deepgram' = "connecting"
  /\ transcriptBuffer' = << >>
  /\ isProcessing' = FALSE
  /\ aiSpeaking' = FALSE
  /\ currentPipeline' = NoPipeline
  /\ lastProcessedText' = << >>
  /\ lastTriggerTime' = 0
  /\ callPc' = "connecting"
  /\ UNCHANGED << now, prerecordedGreeting, nextTurn, turns, synth,
                  conversationHistory, pendingWorkspaceAction, dispatched,
                  cbVars, peerVars, sessVars, connVars, forwarded, obs >>

\* socket.on('call-end')
CallEnd ==
  /\ connected
  /\ HandlersInstalled
  /\ isCallActive' = FALSE
  /\ lastActivity' = now
  /\ deepgram' = "null"
  /\ UNCHANGED << now, callPc, prerecordedGreeting, closureVars, nextTurn, turns,
                  synth, conversationHistory, pendingWorkspaceAction, dispatched,
                  cbVars, peerVars, sessVars, connPc, connErrors, audioBuffer,
                  deepgramReady, audioChunkCount, forwarded, obs >>

\* the session kept on every disconnect
KeepAlive_Always == TRUE

\* if (session.pendingWorkspaceAction): keep the session for the result
KeepAlive == pendingWorkspaceAction # NoAction

\* socket.on('disconnect'): the transcription connection is closed; a session
\* with a pending external action is kept with its disconnect time, any other
\* session is deleted from the registry at once.  A refused connection has no
\* handler: its socket just goes away.
Disconnect ==
  /\ connected
  /\ connected' = FALSE
  /\ IF HandlersInstalled
     THEN /\ deepgram' = DeepgramDisconnected
          /\ IF KeepAlive
             THEN disconnectedAt' = now /\ registered' = registered
             ELSE registered' = FALSE /\ disconnectedAt' = disconnectedAt
     ELSE UNCHANGED << deepgram, disconnectedAt, registered >>
  /\ UNCHANGED << now, callVars, closureVars, nextTurn, turns, synth,
                  conversationHistory, pendingWorkspaceAction, dispatched,
                  cbVars, peerVars, connVars, audioBuffer, deepgramReady, audioChunkCount,
                  forwarded, obs >>

\* the grace period cut to its half
GraceOver_HalfGrace == now - disconnectedAt >= GraceMs \div 2

\* timeSinceDisconnect > 60 * 1000
GraceOver == now - disconnectedAt > GraceMs

\* the idle test without its isCallActive conjunct
IdleOver_DuringCall == lastActivity # 0 /\ now - lastActivity > IdleMs

\* !session.isCallActive && session.lastActivity && inactive for over 30 minutes
IdleOver == ~isCallActive /\ lastActivity # 0 /\ now - lastActivity > IdleMs

\* the sweep deletes a disconnected session after the grace period, any other
\* session without a call after the idle window
SweepDeletes == registered /\ (IF disconnectedAt # 0 THEN GraceOver ELSE IdleOver)

\* the same test on the other client's session, which is in a call from its
\* connection on, so that the idle branch does not apply to it
PeerGraceOver == peerDisconnectedAt # 0 /\ now - peerDisconnectedAt > GraceMs

\* setInterval sweep
Sweep ==
  /\ IF SweepDeletes
     THEN registered' = FALSE /\ deepgram' = DeepgramDisconnected
     ELSE UNCHANGED << registered, deepgram >>
  /\ peerRegistered' = (peerRegistered /\ ~PeerGraceOver)
  /\ UNCHANGED << now, callVars, closureVars, nextTurn, turns, synth,
                  conversationHistory, pendingWorkspaceAction, dispatched,
                  cbVars, connected, disconnectedAt, connVars, audioBuffer,
                  deepgramReady, audioChunkCount, forwarded, peerPc, peerFirst,
                  peerPending, peerHistory, peerDisconnectedAt, obs >>

\* ------------------------------------------------------------ audio-stream
\* the buffer never found over its cap
Overflows_Never(buffer) == FALSE

\* audioBuffer.length > 20
Overflows(buffer) == Len(buffer) > AudioBufferCap

\* audioBuffer.push(audioData), then shift() when over the cap
Buffered(buffer, chunk) ==
  IF Overflows(Append(buffer, chunk)) THEN Tail(Append(buffer, chunk))
  ELSE Append(buffer, chunk)

\* audioBuffer.length > 0 && !deepgramReady
FlushDue == audioBuffer # << >> /\ ~deepgramReady

\* the flush sending the arriving chunk first
Flushed_NewestFirst(chunk) == << chunk >> \o audioBuffer

\* the chunks sent by a flush: the buffered ones in order, then the arriving one
Flushed(chunk) == audioBuffer \o << chunk >>

\* socket.on('audio-stream'): a chunk whose base64 decodes (valid) is sent to
\* the open transcription connection, after the buffered ones, or buffered.
AudioStream(valid) ==
  LET chunk == audioChunkCount + 1 IN
  /\ connected
  /\ HandlersInstalled
  /\ audioChunkCount < MaxAudio
  /\ audioChunkCount' = chunk
  /\ IF deepgram = "null" \/ ~isCallActive \/ ~valid
     THEN UNCHANGED << audioBuffer, deepgramReady, forwarded >>
     ELSE IF deepgram = "open"
     THEN IF FlushDue
          THEN /\ deepgramReady' = TRUE
               /\ forwarded' = forwarded \o Flushed(chunk)
               /\ audioBuffer' = << >>
          ELSE /\ forwarded' = Append(forwarded, chunk)
               /\ UNCHANGED << audioBuffer, deepgramReady >>
     ELSE /\ audioBuffer' = Buffered(audioBuffer, chunk)
          /\ UNCHANGED << deepgramReady, forwarded >>
  /\ UNCHANGED << now, callVars, closureVars, nextTurn, turns, synth,
                  conversationHistory, pendingWorkspaceAction, dispatched,
                  cbVars, peerVars, sessVars, connVars, deepgram, obs >>

\* ------------------------------------------------------- trigger policy
\* the barge-in test without its length conjunct
IsBargeIn_AnyLength(text) ==
  /\ aiSpeaking
  /\ ~StartsWith(text, lastProcessedText)

\* the barge-in test without its aiSpeaking conjunct
IsBargeIn_NotGuardedBySpeaking(text) ==
  /\ Len(Trim(text)) > BargeInMinLen
  /\ ~StartsWith(text, lastProcessedText)

\* BARGE-IN DETECTION: user speaks while AI is speaking
IsBargeIn(text) ==
  /\ aiSpeaking
  /\ Len(Trim(text)) > BargeInMinLen
  /\ ~StartsWith(text, lastProcessedText)

\* the same-text test dropped
IsSameText_Never(text) == FALSE

IsSameText(text) == text = lastProcessedText

\* the cooldown test dropped
IsRapidFire_Never == FALSE

\* the cooldown test with half the window
IsRapidFire_HalfWindow == now - lastTriggerTime < TickMs

IsRapidFire == now - lastTriggerTime < CooldownMs

\* condition 3 with >= in place of > on the confidence
ShouldTrigger_StableInclusive(data) ==
  \/ data.is_final
  \/ (data.confidence > EndpointConfidence /\ data.speech_final)
  \/ /\ Len(data.text) > LongTextLen
     /\ EndsWithTerminal(data.text)
     /\ data.confidence >= StableConfidence

ShouldTrigger(data) ==
  \/ data.is_final
  \/ (data.confidence > EndpointConfidence /\ data.speech_final)
  \/ /\ Len(data.text) > LongTextLen
     /\ EndsWithTerminal(data.text)
     /\ data.confidence > StableConfidence

\* transcriptBuffer.trim().length > 0
HasBufferedText(buffer) == Len(Trim(buffer)) > 0

\* The decision of one transcript event, in the order the handler takes it.
Decision(data) ==
  IF IsBargeIn(data.text) THEN "barge-in"
  ELSE IF isProcessing THEN "locked"
  ELSE IF IsSameText(data.text) \/ IsRapidFire THEN "suppressed"
  ELSE IF ShouldTrigger(data) /\ HasBufferedText(data.text)
       THEN "trigger"
       ELSE "no-fire"

\* The barge-in branch: abort the current pipeline, signal the client, reset.
BargeIn(text) ==
  /\ turns' = IF currentPipeline # NoPipeline
              THEN [turns EXCEPT ![currentPipeline].aborted = TRUE]
              ELSE turns
  /\ currentPipeline' = NoPipeline
  /\ aiSpeaking' = FALSE
  /\ isProcessing' = FALSE
  /\ transcriptBuffer' = text
  /\ lastProcessedText' = << >>
  /\ lastTriggerTime' = 0
  /\ obs' = [obs EXCEPT !.bargeIns = @ + 1, !.bargedSince = TRUE,
                        !.evSinceTrig = TRUE]
  /\ UNCHANGED << earlier, nextTurn, conversationHistory >>

\* The trigger branch, up to the first await of handleUserMessage and of the
\* TTS worker it starts: the user entry is appended, the worker waits for the
\* queue, the turn waits for the first chunk of the generation stream.
Trigger(text) ==
  LET t == nextTurn + 1 IN
  /\ nextTurn < MaxTurns
  /\ nextTurn' = t
  /\ isProcessing' = TRUE
  /\ lastProcessedText' = text
  /\ lastTriggerTime' = now
  /\ transcriptBuffer' = << >>
  /\ currentPipeline' = t
  /\ aiSpeaking' = TRUE
  /\ earlier' = earlier
  /\ conversationHistory' =
       Append(conversationHistory, [role |-> "user", content |-> text])
  /\ turns' = [turns EXCEPT ![t] = [NewTurn EXCEPT !.pc = "stream", !.wpc = "wait"]]
  /\ obs' = [obs EXCEPT !.trigAt = now, !.trigText = text,
                        !.bargedSince = FALSE, !.completedSince = FALSE,
                        !.evSinceTrig = FALSE]

OnTranscript(data) ==
  LET d == Decision(data) IN
  /\ DeepgramOpen
  /\ CASE d = "barge-in" -> BargeIn(data.text)
       [] d = "trigger" -> Trigger(data.text)
       [] d = "locked" ->
            /\ obs' = [obs EXCEPT !.evSinceTrig = TRUE]
            /\ UNCHANGED << closureVars, nextTurn, turns, conversationHistory >>
       [] OTHER ->
            /\ transcriptBuffer' = data.text
            /\ obs' = [obs EXCEPT !.evSinceTrig = TRUE]
            /\ UNCHANGED << isProcessing, aiSpeaking, currentPipeline,
                            lastProcessedText, lastTriggerTime, earlier, nextTurn,
                            turns, conversationHistory >>
  /\ UNCHANGED << now, callVars, synth, pendingWorkspaceAction, dispatched, cbVars, sessVars, lineVars >>

\* ------------------------------------------- generation stream and segmenter
\* What the generation stream can yield: text, the chunk streamOpenAIResponse
\* yields for finished tool calls (key __tool_calls), and a chunk whose JSON
\* holds the key __tool_call, with well-formed or malformed arguments.
CHUNK_HI == <<"H", "i", ".">>
CHUNK_OK == <<"o", "k">>
ARGS == <<"<args>">>
BAD_ARGS == <<"<not-json>">>
TOOL_CALLS_JSON == <<"{__tool_calls}">>

Chunks ==
  { [kind |-> "text", text |-> CHUNK_HI],
    [kind |-> "text", text |-> CHUNK_OK],
    [kind |-> "__tool_calls", text |-> TOOL_CALLS_JSON,
       name |-> "google_workspace_action", arguments |-> ARGS],
    [kind |-> "__tool_call", text |-> <<"{__tool_call}">>,
       name |-> "google_workspace_action", arguments |-> ARGS],
    [kind |-> "__tool_call", text |-> <<"{__tool_call}">>,
       name |-> "google_workspace_action", arguments |-> BAD_ARGS] }

\* chunk.includes('__tool_call')
IncludesToolCallMarker(chunk) == chunk.kind \in {"__tool_call", "__tool_calls"}

\* JSON.parse(chunk).__tool_call, NoToolCall when the parsed object has no such key
ParsedToolCall(chunk) ==
  IF chunk.kind = "__tool_call"
  THEN [name |-> chunk.name, arguments |-> chunk.arguments]
  ELSE NoToolCall

\* the function call a chunk of streamOpenAIResponse carries, if any
CompletedToolCall(chunk) ==
  IF chunk.kind = "__tool_calls"
  THEN [name |-> chunk.name, arguments |-> chunk.arguments]
  ELSE NoToolCall

\* the parse of the arguments never failing
ArgumentsParse_Always(arguments) == TRUE

\* JSON.parse(toolCallDetected.arguments) succeeds
ArgumentsParse(arguments) == arguments # BAD_ARGS

\* SentenceDetector: the buffered text is cut after each terminal punctuation
\* mark; what follows the last mark is the remainder.
RECURSIVE Segment(_, _, _)
Segment(text, current, sentences) ==
  IF text = << >> THEN [sentences |-> sentences, remainder |-> current]
  ELSE IF Head(text) \in Terminal
       THEN Segment(Tail(text), << >>, Append(sentences, Append(current, Head(text))))
       ELSE Segment(Tail(text), Append(current, Head(text)), sentences)

\* detector.addChunk(chunk): the completed sentences and the new remainder
AddChunk(buffer, text) == Segment(buffer \o text, << >>, << >>)

\* AsyncQueue: an ordered, closable queue; the consumer gets the items in the
\* order of the pushes and its iteration ends once the queue is closed and empty.
QueuePush(queue, item) == Append(queue, item)
QueueFirst(queue) == Head(queue)
QueueRest(queue) == Tail(queue)
\* the iteration of the consumer never ending
QueueEnded_Never(queue, closed) == FALSE

QueueEnded(queue, closed) == closed /\ queue = << >>

\* ----------------------------------------------------------- turn helpers
\* socket.emit('ai-response', ...) by a turn
EmitText(r) == [r EXCEPT !.lateOut = @ \/ r.aborted]

\* socket.emit('audio-response', ...) by a turn; idx 0 is an acknowledgment
\* or apology, idx > 0 the position of the sentence in the order of pushes
EmitAudio(r, idx) ==
  [r EXCEPT !.audioOut = Append(@, idx), !.lateOut = @ \/ r.aborted]

\* socket.emit('ai-response', ...) of an acknowledgment or an apology
EmitNotice(r, text) == [EmitText(r) EXCEPT !.notices = Append(@, text)]

\* the contents of a sequence of history entries
Contents(entries) == [i \in 1..Len(entries) |-> entries[i].content]

\* the entries of the tool-call path with the generated text recorded too
AckEntries_WithReply(r) ==
  << [role |-> "assistant", content |-> r.fullResponse],
     [role |-> "assistant", content |-> Acknowledgment(r.ack)] >>

\* the history entries the tool-call path appends: the acknowledgment
AckEntries(r) == << [role |-> "assistant", content |-> Acknowledgment(r.ack)] >>

\* the history entries a turn without tool call appends: the generated text
ReplyEntries(r) ==
  IF ~r.aborted THEN << [role |-> "assistant", content |-> r.fullResponse] >>
  ELSE << >>

\* emit each sentence to the client and push it to the queue, in order
RECURSIVE EmitAndPush(_, _)
EmitAndPush(r, sentences) ==
  IF sentences = << >> THEN r
  ELSE EmitAndPush(
         [EmitText(r) EXCEPT
            !.pushed = @ + 1,
            !.ttsQueue = QueuePush(@, [idx |-> r.pushed + 1, text |-> Head(sentences)])],
         Tail(sentences))

\* the reset of the closure of an earlier call's handler by a turn it started
EarlierReset(t) ==
  /\ earlier' = [earlier EXCEPT
                   !.isProcessing = FALSE,
                   !.aiSpeaking = FALSE,
                   !.currentPipeline = NoPipeline,
                   !.lastProcessedText = IF ~turns[t].aborted THEN << >> ELSE @]
  /\ UNCHANGED << transcriptBuffer, isProcessing, aiSpeaking, currentPipeline,
                  lastProcessedText, lastTriggerTime, obs >>

\* the reset that leaves the pipeline reference in place
FinallyReset_PipelineKept(t) ==
  IF t \in earlier.turns THEN EarlierReset(t)
  ELSE
  /\ isProcessing' = FALSE
  /\ aiSpeaking' = FALSE
  /\ currentPipeline' = currentPipeline
  /\ lastProcessedText' = IF ~turns[t].aborted THEN << >> ELSE lastProcessedText
  /\ obs' = [obs EXCEPT !.completedSince = @ \/ ~turns[t].aborted]
  /\ UNCHANGED << transcriptBuffer, lastTriggerTime, earlier >>

\* the reset that leaves the lock held
FinallyReset_LockKept(t) ==
  IF t \in earlier.turns THEN EarlierReset(t)
  ELSE
  /\ isProcessing' = isProcessing
  /\ aiSpeaking' = FALSE
  /\ currentPipeline' = NoPipeline
  /\ lastProcessedText' = IF ~turns[t].aborted THEN << >> ELSE lastProcessedText
  /\ obs' = [obs EXCEPT !.completedSince = @ \/ ~turns[t].aborted]
  /\ UNCHANGED << transcriptBuffer, lastTriggerTime, earlier >>

\* .finally of the trigger: reset, for the next turn, of the closure of the
\* handler that started the turn
FinallyReset(t) ==
  IF t \in earlier.turns THEN EarlierReset(t)
  ELSE
  /\ isProcessing' = FALSE
  /\ aiSpeaking' = FALSE
  /\ currentPipeline' = NoPipeline
  /\ lastProcessedText' = IF ~turns[t].aborted THEN << >> ELSE lastProcessedText
  /\ obs' = [obs EXCEPT !.completedSince = @ \/ ~turns[t].aborted]
  /\ UNCHANGED << transcriptBuffer, lastTriggerTime, earlier >>

\* The decision of one transcript event delivered to the earlier handler: the
\* same tests, on the variables of its own closure.
EarlierDecision(data) ==
  IF /\ earlier.aiSpeaking
     /\ Len(Trim(data.text)) > BargeInMinLen
     /\ ~StartsWith(data.text, earlier.lastProcessedText)
  THEN "barge-in"
  ELSE IF earlier.isProcessing THEN "locked"
  ELSE IF \/ data.text = earlier.lastProcessedText
          \/ now - earlier.lastTriggerTime < CooldownMs
       THEN "suppressed"
  ELSE IF ShouldTrigger(data) /\ HasBufferedText(data.text)
       THEN "trigger"
       ELSE "no-fire"

\* A transcript event of the transcription connection a later call-start
\* replaced, handled by the handler of the earlier call.  obs records the
\* events of the handler in use and is left alone.
OnEarlierTranscript(data) ==
  LET d == EarlierDecision(data)
      t == nextTurn + 1
  IN
  /\ earlier.open
  /\ CASE d = "barge-in" ->
            /\ turns' = IF earlier.currentPipeline # NoPipeline
                        THEN [turns EXCEPT ![earlier.currentPipeline].aborted = TRUE]
                        ELSE turns
            /\ earlier' = [earlier EXCEPT
                             !.currentPipeline = NoPipeline,
                             !.aiSpeaking = FALSE,
                             !.isProcessing = FALSE,
                             !.transcriptBuffer = data.text,
                             !.lastProcessedText = << >>,
                             !.lastTriggerTime = 0]
            /\ UNCHANGED << nextTurn, conversationHistory >>
       [] d = "trigger" ->
            /\ nextTurn < MaxTurns
            /\ nextTurn' = t
            /\ earlier' = [earlier EXCEPT
                             !.isProcessing = TRUE,
                             !.lastProcessedText = data.text,
                             !.lastTriggerTime = now,
                             !.transcriptBuffer = << >>,
                             !.currentPipeline = t,
                             !.aiSpeaking = TRUE,
                             !.turns = @ \cup {t}]
            /\ conversationHistory' =
                 Append(conversationHistory, [role |-> "user", content |-> data.text])
            /\ turns' = [turns EXCEPT
                           ![t] = [NewTurn EXCEPT !.pc = "stream", !.wpc = "wait"]]
       [] d = "locked" ->
            UNCHANGED << earlier, nextTurn, turns, conversationHistory >>
       [] OTHER ->
            /\ earlier' = [earlier EXCEPT !.transcriptBuffer = data.text]
            /\ UNCHANGED << nextTurn, turns, conversationHistory >>
  /\ UNCHANGED << transcriptBuffer, isProcessing, aiSpeaking, currentPipeline,
                  lastProcessedText, lastTriggerTime, obs >>
  /\ UNCHANGED << now, callVars, synth, pendingWorkspaceAction, dispatched,
                  cbVars, sessVars, lineVars >>

\* ------------------------------------------------------- handleUserMessage
\* The stream yields a chunk.
StreamChunk(t, chunk) ==
  LET r == turns[t]
      seg == AddChunk(r.detector, chunk.text)
  IN
  /\ r.pc = "stream"
  /\ r.nChunks < MaxChunks
  /\ turns' =
       [turns EXCEPT ![t] =
          IF r.aborted
          THEN \* break; the remainder is not flushed; finally closes the queue
               [r EXCEPT !.pc = "join", !.closed = TRUE]
          ELSE IF IncludesToolCallMarker(chunk) /\ ParsedToolCall(chunk) # NoToolCall
          THEN [r EXCEPT !.toolCallDetected = ParsedToolCall(chunk),
                         !.nChunks = @ + 1]
          ELSE [EmitAndPush(r, seg.sentences) EXCEPT
                  !.fullResponse = @ \o chunk.text,
                  !.detector = seg.remainder,
                  !.nChunks = @ + 1,
                  !.streamed = IF chunk.kind = "text" THEN @ \o chunk.text ELSE @,
                  !.streamCall = IF chunk.kind = "__tool_calls"
                                 THEN CompletedToolCall(chunk) ELSE @]]
  /\ UNCHANGED << now, callVars, closureVars, nextTurn, synth, conversationHistory,
                  pendingWorkspaceAction, dispatched, cbVars, sessVars, lineVars, obs >>

\* The stream ends: flush the remainder, close the queue, await the worker.
StreamEnd(t) ==
  LET r == turns[t] IN
  /\ r.pc = "stream"
  /\ turns' =
       [turns EXCEPT ![t] =
          IF r.detector # << >> /\ ~r.aborted
          THEN [EmitAndPush(r, << r.detector >>) EXCEPT
                  !.fullResponse = @ \o r.detector,
                  !.pc = "join", !.closed = TRUE]
          ELSE [r EXCEPT !.pc = "join", !.closed = TRUE]]
  /\ UNCHANGED << now, callVars, closureVars, nextTurn, synth, conversationHistory,
                  pendingWorkspaceAction, dispatched, cbVars, sessVars, lineVars, obs >>

\* The stream throws: finally closes the queue and awaits the worker.
StreamFail(t) ==
  /\ turns[t].pc = "stream"
  /\ turns' = [turns EXCEPT ![t].pc = "join", ![t].closed = TRUE, ![t].failed = TRUE]
  /\ UNCHANGED << now, callVars, closureVars, nextTurn, synth, conversationHistory,
                  pendingWorkspaceAction, dispatched, cbVars, sessVars, lineVars, obs >>

\* The worker has returned; the turn goes on after `await ttsWorkerPromise`.
Join(t) ==
  LET r == turns[t]
      tool == r.toolCallDetected
  IN
  /\ r.pc = "join"
  /\ r.wpc = "done"
  /\ IF r.failed
     THEN \* catch: 'error' and status are emitted, the turn returns
          /\ turns' = [turns EXCEPT ![t].pc = "done", ![t].errorOut = @ + 1]
          /\ FinallyReset(t)
          /\ UNCHANGED << synth, conversationHistory, pendingWorkspaceAction >>
     ELSE IF tool # NoToolCall /\ ~r.aborted /\ tool.name = "google_workspace_action"
     THEN IF ArgumentsParse(tool.arguments)
          THEN \E i \in 1..Len(Acknowledgments) :
                 /\ pendingWorkspaceAction' =
                      [toolCallId |-> t, args |-> tool.arguments, timestamp |-> now]
                 /\ turns' = [turns EXCEPT ![t] =
                                [EmitNotice(r, Acknowledgment(i)) EXCEPT
                                   !.pc = "ackTTS", !.ack = i]]
                 /\ synth' = synth \cup {[caller |-> "ack", turn |-> t, idx |-> 0]}
                 /\ UNCHANGED << closureVars, conversationHistory, obs >>
          ELSE /\ turns' = [turns EXCEPT ![t] =
                              [EmitNotice(r, APOLOGY) EXCEPT !.pc = "errTTS"]]
               /\ synth' = synth \cup {[caller |-> "apology", turn |-> t, idx |-> 0]}
               /\ UNCHANGED << closureVars, conversationHistory,
                               pendingWorkspaceAction, obs >>
     ELSE /\ conversationHistory' = conversationHistory \o ReplyEntries(r)
          /\ turns' = [turns EXCEPT ![t].pc = "done",
                                    ![t].appended = @ \o Contents(ReplyEntries(r))]
          /\ FinallyReset(t)
          /\ UNCHANGED << synth, pendingWorkspaceAction >>
  /\ UNCHANGED << now, callVars, nextTurn, dispatched, cbVars, sessVars, lineVars >>

\* The acknowledgment's synthesis returned or failed: its audio is emitted, the
\* delegated request is dispatched, the acknowledgment is appended to history.
AckDone(t, ok) ==
  LET r == turns[t] IN
  /\ r.pc = "ackTTS"
  /\ synth' = synth \ {[caller |-> "ack", turn |-> t, idx |-> 0]}
  /\ turns' = [turns EXCEPT ![t] =
                 [(IF ok THEN EmitAudio(r, 0) ELSE r) EXCEPT
                    !.pc = "done", !.appended = @ \o Contents(AckEntries(r))]]
  /\ dispatched' = dispatched \cup
                     {[sessionId |-> SessionId, turn |-> t,
                       args |-> r.toolCallDetected.arguments]}
  /\ conversationHistory' = conversationHistory \o AckEntries(r)
  /\ FinallyReset(t)
  /\ UNCHANGED << now, callVars, nextTurn, pendingWorkspaceAction, cbVars, sessVars, lineVars >>

\* The apology's synthesis returned (audio emitted) or failed (the outer catch
\* emits 'error'); either way the turn returns.
ApologyDone(t, ok) ==
  LET r == turns[t] IN
  /\ r.pc = "errTTS"
  /\ synth' = synth \ {[caller |-> "apology", turn |-> t, idx |-> 0]}
  /\ turns' = [turns EXCEPT ![t] =
                 [(IF ok THEN EmitAudio(r, 0) ELSE [r EXCEPT !.errorOut = @ + 1])
                    EXCEPT !.pc = "done"]]
  /\ FinallyReset(t)
  /\ UNCHANGED << now, callVars, nextTurn, conversationHistory,
                  pendingWorkspaceAction, dispatched, cbVars, sessVars, lineVars >>

\* ----------------------------------------------------------- startTTSWorker
\* The worker is at `for await (const sentence of ttsQueue)`: its previous
\* synthesis call, if any, has been awaited.
\* the worker taking its next item without awaiting the synthesis in flight
WorkerReady_NoAwait(t) == turns[t].wpc \in {"wait", "tts"}

WorkerReady(t) == turns[t].wpc = "wait"

\* The queue hands the worker its next item.
WorkerTake(t) ==
  LET r == turns[t]
      item == QueueFirst(r.ttsQueue)
  IN
  /\ WorkerReady(t)
  /\ r.ttsQueue # << >>
  /\ IF r.aborted \/ item.text = << >>
     THEN /\ turns' = [turns EXCEPT ![t].ttsQueue = QueueRest(@), ![t].wpc = "done"]
          /\ synth' = synth
     ELSE /\ turns' = [turns EXCEPT ![t].ttsQueue = QueueRest(@), ![t].wpc = "tts"]
          /\ synth' = synth \cup {[caller |-> "worker", turn |-> t, idx |-> item.idx]}
  /\ UNCHANGED << now, callVars, closureVars, nextTurn, conversationHistory,
                  pendingWorkspaceAction, dispatched, cbVars, sessVars, lineVars, obs >>

\* The queue is closed and drained: the iteration ends, the worker returns.
WorkerEnd(t) ==
  /\ turns[t].wpc = "wait"
  /\ QueueEnded(turns[t].ttsQueue, turns[t].closed)
  /\ turns' = [turns EXCEPT ![t].wpc = "done"]
  /\ UNCHANGED << now, callVars, closureVars, nextTurn, synth, conversationHistory,
                  pendingWorkspaceAction, dispatched, cbVars, sessVars, lineVars, obs >>

\* the worker giving up after a synthesis error
AfterSynthError_Stops(r, idx) ==
  [r EXCEPT !.wpc = "done", !.synthFailed = @ \cup {idx}]

\* catch of one sentence's synthesis: log and continue with the next item
AfterSynthError(r, idx) ==
  [r EXCEPT !.wpc = "wait", !.synthFailed = @ \cup {idx}]

\* A synthesis call of the worker returns (ok) or throws.
WorkerSynthDone(t, req, ok) ==
  LET r == turns[t] IN
  /\ req \in synth
  /\ req.caller = "worker"
  /\ req.turn = t
  /\ synth' = synth \ {req}
  /\ turns' =
       [turns EXCEPT ![t] =
          IF ~ok THEN AfterSynthError(r, req.idx)
          ELSE IF r.aborted THEN [r EXCEPT !.wpc = "done"]
          ELSE [EmitAudio(r, req.idx) EXCEPT !.wpc = "wait"]]
  /\ UNCHANGED << now, callVars, closureVars, nextTurn, conversationHistory,
                  pendingWorkspaceAction, dispatched, cbVars, sessVars, lineVars, obs >>

\* ------------------------------------------------------ another client
\* Another client connects; its session is constructed and registered, and its
\* call is started.
PeerConnection ==
  /\ peerPc = "new"
  /\ peerPc' = "served"
  /\ peerRegistered' = TRUE
  /\ peerFirst' = ~registered
  /\ UNCHANGED << now, callVars, closureVars, nextTurn, turns, synth,
                  conversationHistory, pendingWorkspaceAction, dispatched,
                  cbVars, sessVars, connVars, audioVars, peerPending,
                  peerHistory, peerDisconnectedAt, obs >>

\* A turn of the other client records a pending action on its session.
PeerHandOff ==
  /\ peerPc = "served"
  /\ peerPending = NoAction
  /\ peerPending' = [toolCallId |-> 1, args |-> ARGS, timestamp |-> now]
  /\ UNCHANGED << now, callVars, closureVars, nextTurn, turns, synth,
                  conversationHistory, pendingWorkspaceAction, dispatched,
                  cbVars, sessVars, connVars, audioVars, peerPc, peerRegistered,
                  peerFirst, peerHistory, peerDisconnectedAt, obs >>

\* The other client disconnects: its session is kept for the result of its
\* pending action, or deleted at once.
PeerDisconnect ==
  /\ peerPc = "served"
  /\ peerPc' = "gone"
  /\ IF peerPending # NoAction
     THEN peerDisconnectedAt' = now /\ peerRegistered' = peerRegistered
     ELSE peerRegistered' = FALSE /\ peerDisconnectedAt' = peerDisconnectedAt
  /\ UNCHANGED << now, callVars, closureVars, nextTurn, turns, synth,
                  conversationHistory, pendingWorkspaceAction, dispatched,
                  cbVars, sessVars, connVars, audioVars, peerFirst, peerPending,
                  peerHistory, obs >>

\* ----------------------------------------------- POST /webhook/n8n-response
SUMMARY == <<"<summary>">>
NATURAL == <<"<natural-summary>">>
Summaries == {NoSummary, SUMMARY}
Statuses == {"success", "error", "done"}
CallbackReq == [caller |-> "callback", turn |-> 0, idx |-> 0]

\* the lookup by exact id only, without the pending-action fallback
SessionFound_ExactOnly(sessionId) == Registered(sessionId)

\* the session the callback resolves to: exact id, else any with a pending action
SessionFound(sessionId) == Resolved(sessionId) # NoSession

\* session.conversationHistory.push(entry) on the resolved session
Pushed(id, entry) ==
  IF id = SessionId
  THEN /\ conversationHistory' = Append(conversationHistory, entry)
       /\ peerHistory' = peerHistory
  ELSE /\ peerHistory' = Append(peerHistory, entry)
       /\ conversationHistory' = conversationHistory

\* session.pendingWorkspaceAction = value on the resolved session
PendingSet(id, value) ==
  IF id = SessionId
  THEN pendingWorkspaceAction' = value /\ peerPending' = peerPending
  ELSE peerPending' = value /\ pendingWorkspaceAction' = pendingWorkspaceAction

\* one thing the handler of a callback did
Did(op, text) == << [op |-> op, text |-> text] >>

\* the 200 response sent after the processing of the same run
Received_Late(effects) == effects \o Did("200", << >>)

\* res.status(200).json(...) is sent, then the callback is processed
Received(effects) == Did("200", << >>) \o effects

\* the fallback replaced by the canned completion text
Fallback_Canned(summary) == TASK_DONE

\* responseText = summary, when generateResponse has thrown
Fallback(summary) == summary

CallbackReceive(sessionId, status, summary) ==
  LET id == Resolved(sessionId) IN
  /\ cbPc = "idle"
  /\ nCallbacks < MaxCallbacks
  /\ nCallbacks' = nCallbacks + 1
  /\ IF ~SessionFound(sessionId)
     THEN /\ cbLog' = Did("404", << >>)
          /\ cbTarget' = NoSession
          /\ UNCHANGED << cbPc, cbText, conversationHistory, synth,
                          pendingWorkspaceAction, peerPending, peerHistory >>
     ELSE IF ~SocketOpen(id)
     THEN /\ cbLog' = Received(Did("clear", << >>))
          /\ cbTarget' = id
          /\ PendingSet(id, NoAction)
          /\ UNCHANGED << cbPc, cbText, conversationHistory, synth, peerHistory >>
     ELSE IF status = "success" /\ summary # NoSummary
     THEN /\ cbLog' = Received(Did("user", SystemResult(summary)) \o Did("llm", << >>))
          /\ cbTarget' = id
          /\ Pushed(id, [role |-> "user", content |-> SystemResult(summary)])
          /\ cbPc' = "llm"
          /\ cbText' = summary
          /\ UNCHANGED << synth, pendingWorkspaceAction, peerPending >>
     ELSE LET text == IF status = "error" THEN TASK_FAILED ELSE TASK_DONE IN
          /\ cbLog' = Received(Did("assistant", text) \o Did("ai-response", text)
                               \o Did("tts", text))
          /\ cbTarget' = id
          /\ Pushed(id, [role |-> "assistant", content |-> text])
          /\ cbText' = text
          /\ cbPc' = "tts"
          /\ synth' = synth \cup {CallbackReq}
          /\ UNCHANGED << pendingWorkspaceAction, peerPending >>
  /\ UNCHANGED << now, callVars, closureVars, nextTurn, turns, dispatched,
                  sessVars, connVars, audioVars, peerPc, peerRegistered,
                  peerFirst, peerDisconnectedAt, obs >>

\* generateResponse returned (ok) or threw: the reply is the natural summary or
\* the raw summary; it is appended, emitted and sent to synthesis.
CallbackSummarized(ok) ==
  LET text == IF ok THEN NATURAL ELSE Fallback(cbText) IN
  /\ cbPc = "llm"
  /\ cbLog' = cbLog \o Did(IF ok THEN "llm-ok" ELSE "llm-failed", << >>)
                    \o Did("assistant", text) \o Did("ai-response", text)
                    \o Did("tts", text)
  /\ Pushed(cbTarget, [role |-> "assistant", content |-> text])
  /\ cbText' = text
  /\ cbPc' = "tts"
  /\ synth' = synth \cup {CallbackReq}
  /\ UNCHANGED << now, callVars, closureVars, nextTurn, turns,
                  pendingWorkspaceAction, peerPending, dispatched, nCallbacks,
                  cbTarget, sessVars, connVars, audioVars, peerPc,
                  peerRegistered, peerFirst, peerDisconnectedAt, obs >>

\* the pending action left as it is
ClearedPending_Kept == PendingOf(cbTarget)

\* session.pendingWorkspaceAction = null, at the end of the handler
ClearedPending == NoAction

\* The reply's synthesis returned or failed; the pending action is cleared.
CallbackSpoken(ok) ==
  /\ cbPc = "tts"
  /\ cbLog' = cbLog \o (IF ok THEN Did("audio-response", cbText) ELSE << >>)
                    \o Did("clear", << >>)
  /\ synth' = synth \ {CallbackReq}
  /\ PendingSet(cbTarget, ClearedPending)
  /\ cbPc' = "idle"
  /\ cbText' = << >>
  /\ UNCHANGED << now, callVars, closureVars, nextTurn, turns, conversationHistory,
                  peerHistory, dispatched, nCallbacks, cbTarget, sessVars,
                  connVars, audioVars, peerPc, peerRegistered, peerFirst,
                  peerDisconnectedAt, obs >>

\* --------------------------------------------------------- specifications
\* Spec: the handlers of a call, its turns and the result callback, one turn
\* deep in the pipeline.  SpecPolicy: the
\* trigger policy under every transcript event and every timing of turn
\* completion, the streams yielding nothing.  SpecTurn: the pipeline of a
\* turn under every chunk, synthesis outcome and barge-in.
TRIGGER_EVENT ==
  [text |-> T_STOP, is_final |-> TRUE, speech_final |-> TRUE, confidence |-> 90]
BARGE_EVENT ==
  [text |-> T_WAIT, is_final |-> FALSE, speech_final |-> FALSE,
   confidence |-> StableConfidence]
CoreEvents == {TRIGGER_EVENT, BARGE_EVENT}

CallSteps ==
  \/ CallStart
  \/ CallConnected
  \/ CallConnectFailed
  \/ \E ok \in BOOLEAN : GreetingDone(ok)

StreamSteps ==
  \/ \E t \in Turns, chunk \in Chunks : StreamChunk(t, chunk)
  \/ \E t \in Turns : StreamEnd(t)
  \/ \E t \in Turns : StreamFail(t)
  \/ \E t \in Turns : Join(t)
  \/ \E t \in Turns, ok \in BOOLEAN : AckDone(t, ok)
  \/ \E t \in Turns, ok \in BOOLEAN : ApologyDone(t, ok)

WorkerSteps ==
  \/ \E t \in Turns : WorkerTake(t)
  \/ \E t \in Turns : WorkerEnd(t)
  \/ \E t \in Turns, req \in synth, ok \in BOOLEAN : WorkerSynthDone(t, req, ok)

CallbackSteps ==
  \/ \E sessionId \in {SessionId, UnknownId}, status \in Statuses,
        summary \in Summaries : CallbackReceive(sessionId, status, summary)
  \/ \E ok \in BOOLEAN : CallbackSummarized(ok)
  \/ \E ok \in BOOLEAN : CallbackSpoken(ok)

Next ==
  \/ CallSteps
  \/ Disconnect
  \/ \E data \in CoreEvents : OnTranscript(data) /\ nextTurn' <= DeepTurns
  \/ StreamSteps
  \/ WorkerSteps
  \/ CallbackSteps

Spec == Init /\ [][Next]_vars

PolicyInit == Init /\ prerecordedGreeting

PolicyNext ==
  \/ Tick
  \/ CallStart
  \/ CallConnected
  \/ \E data \in Events : OnTranscript(data)
  \/ \E t \in Turns : StreamEnd(t)
  \/ \E t \in Turns : WorkerEnd(t)
  \/ \E t \in Turns : Join(t)

SpecPolicy == PolicyInit /\ [][PolicyNext]_vars

TextChunks == {chunk \in Chunks : chunk.kind = "text"}

TurnNext ==
  \/ CallStart
  \/ CallConnected
  \/ \E data \in CoreEvents : OnTranscript(data) /\ nextTurn' <= DeepTurns
  \/ \E t \in Turns, chunk \in TextChunks : StreamChunk(t, chunk)
  \/ \E t \in Turns : StreamEnd(t)
  \/ \E t \in Turns : StreamFail(t)
  \/ \E t \in Turns : Join(t)
  \/ WorkerSteps

SpecTurn == PolicyInit /\ [][TurnNext]_vars

\* SpecTurnLive: the pipeline of a turn whose stream yields whole sentences,
\* with every generation stream ending or throwing, every synthesis call
\* returning or throwing, and every continuation that became ready being run.
TurnFairness ==
  \A t \in Turns :
    /\ WF_vars(StreamEnd(t) \/ StreamFail(t))
    /\ WF_vars(WorkerTake(t))
    /\ WF_vars(WorkerEnd(t))
    /\ WF_vars(\E req \in synth, ok \in BOOLEAN : WorkerSynthDone(t, req, ok))
    /\ WF_vars(Join(t))

TurnLiveNext ==
  \/ CallStart
  \/ CallConnected
  \/ \E data \in CoreEvents : OnTranscript(data) /\ nextTurn' <= DeepTurns
  \/ \E t \in Turns : StreamChunk(t, [kind |-> "text", text |-> CHUNK_HI])
  \/ \E t \in Turns : StreamEnd(t)
  \/ \E t \in Turns : StreamFail(t)
  \/ \E t \in Turns : Join(t)
  \/ WorkerSteps

SpecTurnLive == PolicyInit /\ [][TurnLiveNext]_vars /\ TurnFairness

\* SpecBridge: a turn whose stream carries text and a chunk that
\* handleUserMessage takes for a function call; time passes once the turns
\* have returned.
BridgeChunks == {chunk \in Chunks : chunk.kind = "__tool_call" \/ chunk.text = CHUNK_HI}

BridgeNext ==
  \/ Tick /\ nextTurn >= DeepTurns /\ \A t \in Turns : ~Running(t)
  \/ CallStart
  \/ CallConnected
  \/ \E data \in CoreEvents : OnTranscript(data) /\ nextTurn' <= DeepTurns
  \/ \E t \in Turns, chunk \in BridgeChunks : StreamChunk(t, chunk)
  \/ \E t \in Turns : StreamEnd(t)
  \/ \E t \in Turns : Join(t)
  \/ \E t \in Turns, ok \in BOOLEAN : AckDone(t, ok)
  \/ \E t \in Turns, ok \in BOOLEAN : ApologyDone(t, ok)
  \/ WorkerSteps

SpecBridge == PolicyInit /\ [][BridgeNext]_vars

\* SpecCallback: result callbacks for a session that has handed off a function
\* call, before and after its client disconnects.
ActionChunks == {chunk \in Chunks : chunk.kind = "__tool_call" /\ chunk.arguments = ARGS}

CallbackNext ==
  \/ CallStart
  \/ CallConnected
  \/ OnTranscript(TRIGGER_EVENT) /\ nextTurn' <= DeepTurns
  \/ \E t \in Turns, chunk \in ActionChunks : StreamChunk(t, chunk)
  \/ \E t \in Turns : StreamEnd(t)
  \/ \E t \in Turns : WorkerEnd(t)
  \/ \E t \in Turns : Join(t)
  \/ \E t \in Turns, ok \in BOOLEAN : AckDone(t, ok)
  \/ Disconnect
  \/ CallbackSteps

SpecCallback == PolicyInit /\ [][CallbackNext]_vars

\* SpecCallbackLive: the same, every generation and synthesis call of the
\* callback handler eventually returning or failing.
SpecCallbackLive ==
  /\ PolicyInit
  /\ [][CallbackNext]_vars
  /\ WF_vars(\E ok \in BOOLEAN : CallbackSummarized(ok))
  /\ WF_vars(\E ok \in BOOLEAN : CallbackSpoken(ok))

\* SpecSession: the life of a session in the registry until its deletion on
\* disconnect or by the sweep; time passes in long steps once the client has
\* gone and no handler is suspended, and the result of its action is reported
\* as done.
Quiescent == cbPc = "idle" /\ \A t \in Turns : ~Running(t)

SessionNext ==
  \/ \E ms \in {WaitMs, IdleMs} : Elapse(ms) /\ Quiescent /\ ~connected
  \/ CallStart
  \/ CallConnected
  \/ OnTranscript(TRIGGER_EVENT) /\ nextTurn' <= DeepTurns
  \/ \E t \in Turns, chunk \in ActionChunks : StreamChunk(t, chunk)
  \/ \E t \in Turns : StreamEnd(t)
  \/ \E t \in Turns : WorkerEnd(t)
  \/ \E t \in Turns : Join(t)
  \/ \E t \in Turns, ok \in BOOLEAN : AckDone(t, ok)
  \/ Disconnect
  \/ Sweep
  \/ CallbackReceive(SessionId, "done", NoSummary)
  \/ \E ok \in BOOLEAN : CallbackSpoken(ok)

SpecSession == PolicyInit /\ [][SessionNext]_vars

\* SpecAudio: a connection and the audio chunks of its call, while the
\* transcription connection is being established, open, lost or closed; chunks
\* that do not decode are among the first MaxBadAudio chunks counted.
ConnectInit ==
  /\ Booted
  /\ prerecordedGreeting
  /\ registered = FALSE
  /\ connected = FALSE
  /\ connPc = "new"
  /\ lastActivity = 0

AudioNext ==
  \/ \E ok \in BOOLEAN : Connection(ok)
  \/ CallStart
  \/ CallConnected
  \/ CallConnectFailed
  \/ DeepgramDrop
  \/ CallEnd
  \/ Disconnect
  \/ \E valid \in BOOLEAN : AudioStream(valid) /\ (valid \/ audioChunkCount < MaxBadAudio)

SpecAudio == ConnectInit /\ [][AudioNext]_vars

\* SpecIdle: a connection with or without a call, under long steps of the
\* clock and the periodic sweep.
IdleNext ==
  \/ \E ok \in BOOLEAN : Connection(ok)
  \/ CallStart
  \/ CallConnected
  \/ CallEnd
  \/ Disconnect
  \/ \E ms \in {WaitMs, IdleMs} : Elapse(ms)
  \/ Sweep

SpecIdle == ConnectInit /\ [][IdleNext]_vars

\* SpecRepeat: function calls handed off by successive turns of a call, time
\* passing between the turns, and the executor reporting a result as done.
RepeatNext ==
  \/ Tick /\ Quiescent
  \/ CallStart
  \/ CallConnected
  \/ OnTranscript(TRIGGER_EVENT)
  \/ \E t \in Turns, chunk \in ActionChunks : StreamChunk(t, chunk)
  \/ \E t \in Turns : StreamEnd(t)
  \/ \E t \in Turns : WorkerEnd(t)
  \/ \E t \in Turns : Join(t)
  \/ \E t \in Turns, ok \in BOOLEAN : AckDone(t, ok)
  \/ CallbackReceive(SessionId, "done", NoSummary)
  \/ \E ok \in BOOLEAN : CallbackSpoken(ok)

SpecRepeat == PolicyInit /\ [][RepeatNext]_vars

\* SpecRegistry: two clients connecting in either order, each handing off a
\* function call, and result callbacks carrying either id or another one and
\* reporting the action as done.
RegistryIds == {SessionId, PeerId, UnknownId}

RegistryNext ==
  \/ Connection(TRUE)
  \/ PeerConnection
  \/ PeerHandOff
  \/ PeerDisconnect
  \/ CallStart
  \/ CallConnected
  \/ OnTranscript(TRIGGER_EVENT) /\ nextTurn' <= DeepTurns
  \/ \E t \in Turns, chunk \in ActionChunks : StreamChunk(t, chunk)
  \/ \E t \in Turns : StreamEnd(t)
  \/ \E t \in Turns : WorkerEnd(t)
  \/ \E t \in Turns : Join(t)
  \/ \E t \in Turns : AckDone(t, TRUE)
  \/ Disconnect
  \/ \E sessionId \in RegistryIds : CallbackReceive(sessionId, "done", NoSummary)
  \/ \E ok \in BOOLEAN : CallbackSpoken(ok)

SpecRegistry == ConnectInit /\ [][RegistryNext]_vars

\* ------------------------------------------------------------ properties
LiveTurns == {t \in Turns : Running(t)}
AbortedTurns == {t \in Turns : turns[t].aborted}
Triggered == nextTurn >= 1                 \* a trigger has fired in this call
TriggerStep == nextTurn' = nextTurn + 1    \* this step fires a trigger
SinceLastTrigger == now - obs.trigAt

RECURSIVE StrictlyIncreasing(_)
StrictlyIncreasing(q) ==
  Len(q) <= 1 \/ (q[1] < q[2] /\ StrictlyIncreasing(Tail(q)))

\* the audio a turn emitted for sentences of its queue (idx > 0)
SentenceAudio(t) == SelectSeq(turns[t].audioOut, LAMBDA i : i > 0)

\* C1: at most one turn of the session (a handleUserMessage invocation that
\* has not returned) exists at any time.
C1_AtMostOneLiveTurn == Cardinality(LiveTurns) <= 1

\* C2: an event whose trimmed text is longer than 5 characters and does not
\* start with the last triggered text sets the abort flag of every turn that
\* is running when it arrives.
C2_QualifyingEventAborts ==
  [][\A data \in Events :
       ( /\ OnTranscript(data)
         /\ Triggered
         /\ Len(Trim(data.text)) > BargeInMinLen
         /\ ~StartsWith(data.text, obs.trigText) )
       => \A t \in LiveTurns : turns'[t].aborted]_vars

\* C3: a turn whose abort flag is set emits no further reply text and no
\* further audio to the client.
C3_NoOutputAfterAbort == \A t \in Turns : ~turns[t].lateOut

\* C4: each 'barge-in' signal goes with the abort of exactly one turn, which
\* is running and is the most recently triggered one (so the signal precedes
\* the next trigger and all its output); no signal is emitted when no turn is
\* running, and no turn is aborted without a signal.
C4_OneSignalPerBargeIn ==
  [][LET newlyAborted == {t \in Turns : ~turns[t].aborted /\ turns'[t].aborted} IN
       /\ obs'.bargeIns = obs.bargeIns + Cardinality(newlyAborted)
       /\ Cardinality(newlyAborted) <= 1
       /\ \A t \in newlyAborted : Running(t) /\ t = nextTurn /\ nextTurn' = nextTurn]_vars

\* C4 witness: a barge-in aborted the first turn and the next turn was triggered.
C4_Witness ==
  /\ obs.bargeIns = 1
  /\ turns[1].aborted
  /\ nextTurn = 2
  /\ Running(2)

\* C5 as stated: any two consecutive triggers are at least 500 ms apart.
C5_TriggersHalfSecondApart ==
  [][(TriggerStep /\ Triggered) => SinceLastTrigger >= CooldownMs]_vars

\* C5 amended: two consecutive triggers with no barge-in between them are at
\* least 500 ms apart.
C5_TriggersApartUnlessBargeIn ==
  [][(TriggerStep /\ Triggered /\ ~obs.bargedSince) => SinceLastTrigger >= CooldownMs]_vars

\* C5 witness: a second trigger fired and no barge-in ever happened.
C5_Witness ==
  /\ nextTurn = 2
  /\ obs.bargeIns = 0
  /\ AbortedTurns = {}

\* C6 as stated: a trigger never fires on the text of the immediately
\* preceding trigger.
C6_NeverSameTextTwice ==
  [][(TriggerStep /\ Triggered) => obs'.trigText # obs.trigText]_vars

\* C6 amended: as long as no barge-in happened and no non-aborted turn
\* returned since the preceding trigger, no event carrying that trigger's text
\* fires a trigger.
C6_SameTextSuppressedUntilCleared ==
  \A data \in Events :
    ( /\ Triggered
      /\ ~obs.bargedSince
      /\ ~obs.completedSince
      /\ data.text = obs.trigText )
    => Decision(data) # "trigger"

\* C6 witness: the lock is free and the cooldown is over while the preceding
\* trigger's text is still recorded, so only the same-text test suppresses.
C6_Witness ==
  /\ Triggered
  /\ ~obs.bargedSince
  /\ ~obs.completedSince
  /\ ~isProcessing
  /\ SinceLastTrigger >= CooldownMs
  /\ DeepgramOpen

\* C7: the event right after a triggering event, with the same text and less
\* than 500 ms later, starts no turn and aborts no turn, whether or not the
\* triggered turn has returned.
C7_RapidDuplicateIgnored ==
  [][\A data \in Events :
       ( /\ OnTranscript(data)
         /\ Triggered
         /\ ~obs.evSinceTrig
         /\ data.text = obs.trigText
         /\ SinceLastTrigger < CooldownMs )
       => /\ nextTurn' = nextTurn
          /\ \A t \in Turns : turns'[t].aborted = turns[t].aborted]_vars

\* C7 witness: the only turn has returned, less than 500 ms after its trigger,
\* and a later event with the trigger's text was buffered without a new turn.
C7_Witness ==
  /\ nextTurn = 1
  /\ turns[1].pc = "done"
  /\ ~turns[1].aborted
  /\ obs.evSinceTrig
  /\ transcriptBuffer = obs.trigText
  /\ SinceLastTrigger < CooldownMs

\* an event the earlier rules do not suppress: no turn is running, and its text
\* differs from the last triggered text and 500 ms have passed since the last
\* trigger, if there was one
Unsuppressed(data) ==
  /\ DeepgramOpen
  /\ LiveTurns = {}
  /\ Triggered => (data.text # obs.trigText /\ SinceLastTrigger >= CooldownMs)

\* the firing rule, from the event's fields
RuleFires(data) ==
  \/ data.is_final
  \/ (data.confidence > 85 /\ data.speech_final)
  \/ /\ Len(data.text) > 15
     /\ Len(data.text) > 0
     /\ data.text[Len(data.text)] \in {".", "!", "?"}
     /\ data.confidence > 80

\* C8 as stated: an unsuppressed event starts a turn iff the firing rule
\* holds of it, for every text.
C8_FiresIffRule ==
  [][\A data \in Events :
       (OnTranscript(data) /\ Unsuppressed(data))
       => (TriggerStep <=> RuleFires(data))]_vars

\* C8 amended: an unsuppressed event starts a turn iff the firing rule holds
\* of it and its trimmed text is not empty.
C8_FiresIffRuleAndText ==
  \A data \in Events :
    Unsuppressed(data)
    => (Decision(data) = "trigger" <=> (RuleFires(data) /\ Len(Trim(data.text)) > 0))

\* C8 witness: after the first turn returned, an unsuppressed event started
\* the second turn.
C8_Witness ==
  /\ nextTurn = 2
  /\ turns[1].pc = "done"
  /\ ~turns[1].aborted
  /\ Running(2)
  /\ obs.trigAt >= StartTime + CooldownMs

\* C9: within a turn, sentence audio is emitted in the order of the pushes,
\* each sentence at most once.
C9_AudioInPushOrder ==
  \A t \in Turns :
    /\ StrictlyIncreasing(SentenceAudio(t))
    /\ \A k \in 1..Len(SentenceAudio(t)) : SentenceAudio(t)[k] \in 1..turns[t].pushed

\* C9 witness: a turn emitted the audio of two sentences.
C9_Witness == \E t \in Turns : Len(SentenceAudio(t)) >= 2

\* C10: at most one synthesis request is in flight, counting every caller.
C10_OneSynthesisInFlight == Cardinality(synth) <= 1

\* --------------------------------------------- history and function calls
Finished(t) == turns[t].pc = "done"

\* a turn that ended without abort, without failure and without function call
PlainTurn(t) ==
  /\ Finished(t)
  /\ ~turns[t].aborted
  /\ ~turns[t].failed
  /\ turns[t].toolCallDetected = NoToolCall
  /\ turns[t].streamCall = NoToolCall

\* a text holds the function-call chunk of the stream
HoldsToolCalls(text) == \E i \in 1..Len(text) : text[i] = TOOL_CALLS_JSON[1]

AssistantEntries ==
  SelectSeq(conversationHistory, LAMBDA e : e.role = "assistant")

RECURSIVE AppendedUpTo(_)
AppendedUpTo(t) ==
  IF t = 0 THEN 0 ELSE Len(turns[t].appended) + AppendedUpTo(t - 1)

\* the delegated requests a turn dispatched for the session
DispatchedBy(t) == {d \in dispatched : d.turn = t /\ d.sessionId = SessionId}

\* C11: a turn that finished without abort and without function call appended
\* exactly one assistant entry, whose content is the concatenation of the text
\* chunks of its stream, each counted once.
C11_HistoryEqualsGeneratedText ==
  \A t \in Turns : PlainTurn(t) => turns[t].appended = << turns[t].streamed >>

\* C12: a turn whose abort flag was set before it returned appended no
\* assistant entry.
C12_AbortedTurnAppendsNothing ==
  \A t \in Turns : (Finished(t) /\ turns[t].aborted) => turns[t].appended = << >>

\* C13: the function-call chunk of the stream is never part of the generated
\* reply text, of the segmenter's buffer or of an item of the synthesis queue.
C13_FunctionCallChunkNotInReply ==
  \A t \in Turns :
    /\ ~HoldsToolCalls(turns[t].fullResponse)
    /\ ~HoldsToolCalls(turns[t].detector)
    /\ \A k \in 1..Len(turns[t].ttsQueue) : ~HoldsToolCalls(turns[t].ttsQueue[k].text)

\* C14: when the stream of a non-aborted turn finished with a
\* google_workspace_action call with well-formed arguments, then at the end of
\* the turn the session holds a pending action with those arguments, one
\* acknowledgment was emitted and one delegated request was dispatched.
C14_FunctionCallHandedOff ==
  \A t \in Turns :
    ( /\ Finished(t)
      /\ ~turns[t].aborted
      /\ ~turns[t].failed
      /\ turns[t].streamCall.name = "google_workspace_action"
      /\ turns[t].streamCall.arguments = ARGS )
    => /\ pendingWorkspaceAction.args = ARGS
       /\ Len(turns[t].notices) = 1
       /\ Cardinality(DispatchedBy(t)) = 1

\* a turn that handed off a function call
HandedOff(t) == Finished(t) /\ DispatchedBy(t) # {}

\* C15: a turn that hands off a function call appends the acknowledgment as
\* its only assistant entry, exactly once, and not the text generated before
\* the call; the history holds no other assistant entry than the greeting and
\* what the turns appended.
C15_OnlyAcknowledgmentAppended ==
  /\ \A t \in Turns :
       /\ HandedOff(t) => turns[t].appended = << Acknowledgment(turns[t].ack) >>
       /\ turns[t].pc = "ackTTS" => turns[t].appended = << >>
  /\ Len(AssistantEntries) =
       (IF callPc \in {"greeting", "ready"} THEN 1 ELSE 0) + AppendedUpTo(MaxTurns)

\* C15 witness: a turn that had generated text handed off a function call.
C15_Witness ==
  \E t \in Turns :
    /\ HandedOff(t)
    /\ turns[t].fullResponse # << >>
    /\ turns[t].appended = << Acknowledgment(turns[t].ack) >>

\* the qualifying events start a turn by the rules of the trigger policy alone
StartsNormally ==
  \A data \in Events :
    Decision(data) = "trigger"
    <=> ( /\ ~IsSameText(data.text)
          /\ ~IsRapidFire
          /\ ShouldTrigger(data)
          /\ HasBufferedText(data.text) )

\* C16: when the arguments of the detected function call are not valid JSON,
\* the turn emits the apology and records, dispatches and appends nothing; when
\* it returns, the trigger lock is released and events start turns normally.
C16_MalformedArgumentsApologize ==
  [][\A t \in Turns :
       /\ ( /\ Join(t)
            /\ ~turns[t].aborted
            /\ ~turns[t].failed
            /\ turns[t].toolCallDetected.arguments = BAD_ARGS )
          => /\ turns'[t].notices = << APOLOGY >>
             /\ turns'[t].pc = "errTTS"
             /\ turns'[t].appended = << >>
             /\ UNCHANGED << pendingWorkspaceAction, dispatched, conversationHistory >>
       /\ (turns[t].pc = "errTTS" /\ turns'[t].pc = "done")
          => /\ turns'[t].appended = << >>
             /\ DispatchedBy(t)' = {}
             /\ UNCHANGED << pendingWorkspaceAction, dispatched, conversationHistory >>
             /\ ~isProcessing'
             /\ StartsNormally'
    ]_vars

\* C16 witness: the turn of a call with malformed arguments has apologized and
\* returned, and the next final event would start a turn.
C16_Witness ==
  \E t \in Turns :
    /\ Finished(t)
    /\ turns[t].toolCallDetected.arguments = BAD_ARGS
    /\ turns[t].notices = << APOLOGY >>
    /\ ~turns[t].aborted
    /\ ~isProcessing
    /\ pendingWorkspaceAction = NoAction
    /\ Decision(TRIGGER_EVENT) = "trigger"

\* ------------------------------------------------------- result callbacks
CallbackIds == {SessionId, UnknownId}

\* what the handler of the latest callback did
LogOps(log) == {log[i].op : i \in 1..Len(log)}
Responses(log) == SelectSeq(log, LAMBDA e : e.op \in {"200", "404", "500"})
LogTexts(log, op) == {log[i].text : i \in {k \in 1..Len(log) : log[k].op = op}}
LogCount(log, op) == Cardinality({k \in 1..Len(log) : log[k].op = op})
Downstream ==
  {"user", "assistant", "llm", "llm-ok", "llm-failed", "tts", "ai-response",
   "audio-response"}

\* C17: a callback is answered 404 exactly when the registry has no session
\* with the given id and no session with a pending external action; then no
\* history and no pending action changes and nothing is emitted.
C17_NotFoundIffNoSession ==
  [][\A sessionId \in CallbackIds, status \in Statuses, summary \in Summaries :
       CallbackReceive(sessionId, status, summary)
       => /\ ("404" \in LogOps(cbLog'))
             <=> ( /\ ~(registered /\ sessionId = SessionId)
                   /\ ~(registered /\ pendingWorkspaceAction # NoAction) )
          /\ ("404" \in LogOps(cbLog'))
             => /\ cbLog' = Did("404", << >>)
                /\ cbPc' = "idle"
                /\ UNCHANGED << conversationHistory, pendingWorkspaceAction, synth,
                                turns, dispatched >>
    ]_vars

\* C17 witness: a callback was answered 404 after the session had been deleted
\* on disconnect.
C17_Witness == ~registered /\ "404" \in LogOps(cbLog)

\* C18: a callback that resolves to a session whose socket no longer exists
\* clears the pending action and does nothing else.
C18_DisconnectedOnlyClears ==
  [][\A sessionId \in CallbackIds, status \in Statuses, summary \in Summaries :
       ( /\ CallbackReceive(sessionId, status, summary)
         /\ registered
         /\ (sessionId = SessionId \/ pendingWorkspaceAction # NoAction)
         /\ ~connected )
       => /\ pendingWorkspaceAction' = NoAction
          /\ LogOps(cbLog') \cap Downstream = {}
          /\ cbPc' = "idle"
          /\ UNCHANGED << conversationHistory, synth, turns, dispatched >>
    ]_vars

\* C18 witness: the result of a pending action arrived after the client had
\* disconnected, and the pending action was cleared.
C18_Witness ==
  /\ registered
  /\ ~connected
  /\ disconnectedAt # 0
  /\ LogOps(cbLog) = {"200", "clear"}
  /\ pendingWorkspaceAction = NoAction

\* C19: a callback gets exactly one HTTP response; for a callback that
\* resolves to a session it is the 200, sent before anything else is done.
C19_AcknowledgedFirstAndOnce ==
  cbLog # << >>
  => /\ Len(Responses(cbLog)) = 1
     /\ cbLog[1].op \in {"200", "404"}
     /\ cbLog[1].op = "404" => Len(cbLog) = 1

\* C19 witness: the summarization failed after the 200 had been sent, and the
\* handler has finished.
C19_Witness ==
  /\ cbPc = "idle"
  /\ "llm-failed" \in LogOps(cbLog)
  /\ "clear" \in LogOps(cbLog)
  /\ cbLog[1].op = "200"

\* the latest entry of the history
LastEntry(history) == history[Len(history)]

\* C20: a success callback with a summary on a live connection appends the
\* synthetic result message; the end of the summarization appends exactly one
\* assistant entry, which, with the emitted reply text, is the raw summary when
\* the summarization failed.
C20_SummaryFallbackVerbatim ==
  [][/\ \A sessionId \in CallbackIds, summary \in Summaries \ {NoSummary} :
          ( /\ CallbackReceive(sessionId, "success", summary)
            /\ "404" \notin LogOps(cbLog')
            /\ connected )
          => /\ conversationHistory' =
                  Append(conversationHistory,
                         [role |-> "user", content |-> SystemResult(summary)])
             /\ cbPc' = "llm"
     /\ (cbPc = "llm" /\ cbPc' # "llm")
        => /\ Len(conversationHistory') = Len(conversationHistory) + 1
           /\ LastEntry(conversationHistory').role = "assistant"
           /\ LogCount(cbLog', "user") = 1
           /\ LogCount(cbLog', "assistant") = 1
           /\ LogTexts(cbLog', "assistant") = {LastEntry(conversationHistory').content}
           /\ "llm-failed" \in LogOps(cbLog')
              => /\ LastEntry(conversationHistory').content = cbText
                 /\ LogTexts(cbLog', "ai-response") = {cbText}
                 /\ SystemResult(cbText) \in LogTexts(cbLog', "user")
    ]_vars

\* C20 witness: the summarization failed and the raw summary was appended as
\* the assistant's reply.
C20_Witness ==
  /\ "llm-failed" \in LogOps(cbLog)
  /\ conversationHistory # << >>
  /\ LastEntry(conversationHistory) = [role |-> "assistant", content |-> SUMMARY]

\* C21: a result callback that resolves to a session either clears the
\* session's pending action in the same run or suspends on the summarization
\* or the synthesis, and a suspended callback leads to the pending action being
\* empty, whatever the status and whether or not those calls fail.
C21_CallbackClearsPending ==
  /\ [][\A sessionId \in CallbackIds, status \in Statuses, summary \in Summaries :
          ( /\ CallbackReceive(sessionId, status, summary)
            /\ "404" \notin LogOps(cbLog') )
          => \/ cbPc' \in {"llm", "tts"}
             \/ pendingWorkspaceAction' = NoAction]_vars
  /\ (cbPc \in {"llm", "tts"}) ~> (cbPc = "idle" /\ pendingWorkspaceAction = NoAction)

\* C21 witness: the callback found an action pending, both the summarization
\* and the synthesis failed, and the pending action is empty.
C21_Witness ==
  /\ cbPc = "idle"
  /\ dispatched # {}
  /\ "llm-failed" \in LogOps(cbLog)
  /\ "audio-response" \notin LogOps(cbLog)
  /\ "clear" \in LogOps(cbLog)
  /\ pendingWorkspaceAction = NoAction

\* C22: the disconnect of a client whose session is in the registry removes
\* the session in that step exactly when the session has no pending action;
\* a session that has one stays in the registry, with the time of the
\* disconnect recorded and its pending action untouched.
C22_DisconnectKeepsIffPending ==
  [][(connected /\ ~connected' /\ registered)
       => /\ ~registered' <=> pendingWorkspaceAction = NoAction
          /\ registered' => /\ disconnectedAt' = now
                            /\ pendingWorkspaceAction' = pendingWorkspaceAction
          /\ ~registered' => disconnectedAt' = disconnectedAt]_vars

\* C22 witness: the client is gone and its session is kept for the result of
\* its pending action, with the disconnect time recorded.
C22_Witness ==
  /\ ~connected
  /\ registered
  /\ pendingWorkspaceAction # NoAction
  /\ disconnectedAt = now
  /\ disconnectedAt # 0

\* C23: while a session retained on disconnect is in the registry, a sweep
\* deletes it exactly when more than GraceMs have passed since the disconnect,
\* whether its pending action is still set or was cleared; and no step removes
\* a retained session earlier than that.
C23_RetainedUntilGraceOver ==
  /\ []( (registered /\ disconnectedAt # 0)
           => ( (ENABLED (Sweep /\ ~registered'))
                  <=> now - disconnectedAt > GraceMs ) )
  /\ [][(registered /\ disconnectedAt # 0 /\ ~registered')
          => now - disconnectedAt > GraceMs]_vars

\* C23 witness: a retained session whose pending action was cleared by the
\* callback has been deleted by the sweep, one and a half grace periods after
\* the disconnect.
C23_Witness ==
  /\ ~registered
  /\ disconnectedAt # 0
  /\ now - disconnectedAt = 3 * WaitMs
  /\ pendingWorkspaceAction = NoAction
  /\ "clear" \in LogOps(cbLog)

\* C23 witness of the boundary: a retained session is still in the registry
\* exactly one grace period after the disconnect.
C23_AtBoundary ==
  /\ registered
  /\ disconnectedAt # 0
  /\ now - disconnectedAt = GraceMs

\* C24: a session that is still in the registry after its client has
\* disconnected has its call-active flag false.
C24_InactiveAfterDisconnect ==
  (registered /\ ~connected) => ~isCallActive

\* C25: the audio buffer never holds more than AudioBufferCap chunks, and an
\* audio-stream event that buffers its chunk appends it, dropping the oldest
\* chunk when the buffer was full, so that the newest chunks are kept in the
\* order of their arrival.
C25_BufferCapped ==
  /\ [](Len(audioBuffer) <= AudioBufferCap)
  /\ [][(audioBuffer' # audioBuffer /\ audioBuffer' # << >>)
          => /\ audioChunkCount' = audioChunkCount + 1
             /\ audioBuffer' =
                  IF Len(audioBuffer) = AudioBufferCap
                  THEN Append(Tail(audioBuffer), audioChunkCount')
                  ELSE Append(audioBuffer, audioChunkCount')
             /\ StrictlyIncreasing(audioBuffer')]_vars

\* C25 witness: a chunk arrived at a full buffer and the oldest one was dropped.
C25_Witness ==
  /\ Len(audioBuffer) = AudioBufferCap
  /\ Head(audioBuffer) > 1
  /\ audioBuffer[AudioBufferCap] = audioChunkCount
  /\ audioChunkCount > AudioBufferCap

\* C26: an audio-stream event whose chunk decodes, arriving while the
\* transcription connection is open and the buffer holds chunks, forwards the
\* buffered chunks in their order and then the arriving chunk, and leaves the
\* buffer empty; the chunks forwarded during a call are in strictly increasing
\* order of arrival, so none is forwarded twice.
C26_FlushInOrder ==
  /\ [][( /\ AudioStream(TRUE)
          /\ isCallActive
          /\ deepgram = "open"
          /\ audioBuffer # << >> )
          => /\ forwarded' = forwarded \o audioBuffer \o << audioChunkCount' >>
             /\ audioBuffer' = << >>]_vars
  /\ [](StrictlyIncreasing(forwarded))

\* C26 witness: a flush has forwarded buffered chunks and the chunk that
\* arrived after them, and the buffer is empty.
C26_Witness ==
  /\ deepgramReady
  /\ audioBuffer = << >>
  /\ Len(forwarded) >= 3
  /\ forwarded[Len(forwarded)] = audioChunkCount

\* C27: a throw of the generation stream closes the queue of the turn; the
\* turn returns only once its worker has returned, it then emits one 'error'
\* notification, and on its return the trigger lock is free and qualifying
\* events start turns by the rules of the trigger policy.  A turn that did not
\* fail emits no 'error'.
C27_FailureReportedAndReleased ==
  [][\A t \in Turns :
       /\ (~turns[t].failed /\ turns'[t].failed)
            => turns'[t].closed /\ turns'[t].pc = "join"
       /\ (turns[t].failed /\ turns[t].pc # "done" /\ turns'[t].pc = "done")
            => /\ turns[t].closed
               /\ turns[t].wpc = "done"
               /\ turns'[t].wpc = "done"
               /\ turns[t].errorOut = 0
               /\ turns'[t].errorOut = 1
               /\ ~isProcessing'
               /\ currentPipeline' = NoPipeline
               /\ StartsNormally'
       /\ (~turns'[t].failed) => turns'[t].errorOut = 0]_vars

\* C27 witness: a turn whose stream threw after a sentence had been queued
\* has returned with the failure notified and the lock free.
C27_Witness ==
  \E t \in Turns :
    /\ Finished(t)
    /\ turns[t].failed
    /\ turns[t].pushed > 0
    /\ turns[t].errorOut = 1
    /\ ~isProcessing

\* C28: the failure of one sentence's synthesis leaves the worker waiting for
\* its next item and does not make the turn fail or notify an error; a turn
\* that was not aborted returns with every queued sentence either failed or
\* emitted as audio, the emitted ones in the order of the queue, and, unless
\* its stream threw, with its reply appended to the history.
C28_SynthesisFailureSkipped ==
  /\ [][\A t \in Turns :
          (turns'[t].synthFailed # turns[t].synthFailed)
            => /\ turns'[t].wpc = "wait"
               /\ turns'[t].failed = turns[t].failed
               /\ turns'[t].errorOut = turns[t].errorOut
               /\ turns'[t].audioOut = turns[t].audioOut
               /\ turns'[t].ttsQueue = turns[t].ttsQueue]_vars
  /\ [](\A t \in Turns :
          (Finished(t) /\ ~turns[t].aborted)
            => /\ \A k \in 1..turns[t].pushed :
                    (k \in turns[t].synthFailed)
                      # (\E i \in 1..Len(SentenceAudio(t)) : SentenceAudio(t)[i] = k)
               /\ StrictlyIncreasing(SentenceAudio(t))
               /\ ~turns[t].failed
                    => /\ turns[t].errorOut = 0
                       /\ turns[t].appended = << turns[t].fullResponse >>)

\* C28 witness: the synthesis of the first sentence failed, the audio of the
\* second one was emitted, and the turn returned without failing.
C28_Witness ==
  \E t \in Turns :
    /\ Finished(t)
    /\ ~turns[t].aborted
    /\ ~turns[t].failed
    /\ turns[t].synthFailed = {1}
    /\ SentenceAudio(t) = << 2 >>
    /\ turns[t].errorOut = 0

\* C29: a connection whose services could not be constructed has received
\* exactly one 'error' notification, has no session in the registry, and
\* nothing a call-start, audio-stream, call-end or disconnect handler does has
\* happened for it.
C29_RefusedConnectionInert ==
  (connPc = "refused")
    => /\ connErrors = 1
       /\ ~registered
       /\ callPc = "none"
       /\ ~isCallActive
       /\ deepgram = "null"
       /\ audioChunkCount = 0
       /\ audioBuffer = << >>
       /\ forwarded = << >>
       /\ lastActivity = 0
       /\ disconnectedAt = 0
       /\ conversationHistory = << >>

\* C29 witness: a refused connection has been notified once and its client has
\* gone away.
C29_Witness ==
  /\ connPc = "refused"
  /\ connErrors = 1
  /\ ~connected
  /\ ~registered

\* C30: a result callback carrying the id of another session, one that is not
\* this session's id, leaves this session's conversation history, pending
\* action and trigger state unchanged and starts no reply to this session's
\* client.
C30_CallbackOfAnotherSessionIsolated ==
  [][\A status \in Statuses, summary \in Summaries :
       CallbackReceive(UnknownId, status, summary)
         => /\ conversationHistory' = conversationHistory
            /\ pendingWorkspaceAction' = pendingWorkspaceAction
            /\ closureVars' = closureVars
            /\ cbPc' = "idle"
            /\ LogOps(cbLog') \cap {"ai-response", "audio-response", "tts"} = {}]_vars

\* C31: while the lock of a turn being processed is held, a transcript event
\* whose trimmed text has at most BargeInMinLen characters, or whose text
\* starts with the last triggered text, leaves the transcript buffer, the last
\* triggered text, the last trigger time, the lock, the speaking flag, the
\* pipeline reference and every abort flag unchanged, starts no turn and emits
\* no interruption signal.
C31_LockedEventIgnored ==
  [][\A data \in Events :
       ( /\ isProcessing
         /\ \/ Len(Trim(data.text)) <= BargeInMinLen
            \/ StartsWith(data.text, lastProcessedText)
         /\ OnTranscript(data) )
       => /\ UNCHANGED << transcriptBuffer, lastProcessedText, lastTriggerTime,
                          isProcessing, aiSpeaking, currentPipeline >>
          /\ UNCHANGED << turns, nextTurn, conversationHistory, synth >>
          /\ obs'.bargeIns = obs.bargeIns]_vars

\* C31 witness: with the lock held, an event that is not an interruption
\* arrived after the trigger and the buffer still holds nothing of it.
C31_Witness ==
  /\ isProcessing
  /\ obs.evSinceTrig
  /\ ~obs.bargedSince
  /\ transcriptBuffer = << >>
  /\ lastProcessedText = T_WAIT

\* C33: between the handler runs of a call the three flags of the trigger
\* state agree: the lock is held exactly when the speaking flag is set, and
\* exactly when the pipeline reference is set.
C33_TriggerFlagsAgree ==
  /\ isProcessing <=> aiSpeaking
  /\ isProcessing <=> currentPipeline # NoPipeline

\* C33 witness: after a barge-in, the return of the aborted turn has cleared
\* the three flags together while a later turn is running.
C33_Witness ==
  /\ obs.bargeIns > 0
  /\ \E t \in Turns : Finished(t)
  /\ \E t \in Turns : Running(t)
  /\ ~isProcessing
  /\ ~aiSpeaking
  /\ currentPipeline = NoPipeline

\* C34: whenever a turn records a pending action, and whenever it dispatches
\* the delegated request, the session is in the registry under the id sent.
C34_RegisteredAtHandOff ==
  [][/\ (pendingWorkspaceAction' # pendingWorkspaceAction
           /\ pendingWorkspaceAction' # NoAction) => registered
     /\ (dispatched' # dispatched)
          => \A d \in dispatched' \ dispatched : Registered(d.sessionId)]_vars

\* C37: a result callback whose id is that of a session without a pending
\* action appends nothing to the session's history and starts no reply to its
\* client.
C37_CallbackNeedsPendingAction ==
  [][\A status \in Statuses, summary \in Summaries :
       ( /\ CallbackReceive(SessionId, status, summary)
         /\ pendingWorkspaceAction = NoAction )
       => /\ conversationHistory' = conversationHistory
          /\ cbPc' = "idle"
          /\ LogOps(cbLog') \cap {"ai-response", "audio-response", "tts", "llm"} = {}]_vars

C36_ClearedByOwnResultOnly ==
  [][( /\ dispatched # {}
       /\ pendingWorkspaceAction # NoAction
       /\ pendingWorkspaceAction' = NoAction )
       => \E d \in dispatched : d.turn = pendingWorkspaceAction.toolCallId]_vars

\* C38: every started turn returns; it returns only with its queue closed and
\* its worker finished, whether its stream ended, was left on an abort or
\* threw; and after its return no more audio of its worker is emitted.
C38_TurnTerminatesAfterWorker ==
  /\ \A t \in Turns : (turns[t].pc # "new") ~> (turns[t].pc = "done")
  /\ [][\A t \in Turns :
          /\ (turns[t].pc # "done" /\ turns'[t].pc = "done")
               => /\ turns[t].closed
                  /\ turns[t].wpc = "done"
                  /\ turns[t].ttsQueue = << >> \/ turns[t].aborted
          /\ (turns[t].pc = "done")
               => /\ turns'[t].pc = "done"
                  /\ turns'[t].audioOut = turns[t].audioOut
                  /\ turns'[t].wpc = "done"]_vars

\* C38 witness: a turn aborted while a synthesis was in flight has returned,
\* its worker finished, with a sentence left unspoken in its closed queue.
C38_Witness ==
  \E t \in Turns :
    /\ turns[t].pc = "done"
    /\ turns[t].aborted
    /\ turns[t].closed
    /\ turns[t].wpc = "done"
    /\ turns[t].pushed > Len(SentenceAudio(t))

\* the positions, in insertion order, of the registry's sessions with a
\* pending action
WithPending == {i \in 1..Len(Entries) : PendingOf(Entries[i]) # NoAction}

\* C32: a callback whose id is not in the registry, arriving while a session
\* has a pending action, resolves to the session with a pending action that
\* was inserted first; the history and the pending action of the other session
\* are not changed by its arrival, and the end of its reply clears the pending
\* action of the session it resolved to and changes nothing else of either.
C32_FallbackFirstInserted ==
  [][/\ \A sessionId \in RegistryIds :
          ( /\ CallbackReceive(sessionId, "done", NoSummary)
            /\ sessionId \notin {Entries[i] : i \in 1..Len(Entries)}
            /\ WithPending # {} )
          => /\ cbTarget' = Entries[CHOOSE i \in WithPending :
                                      \A j \in WithPending : i <= j]
             /\ cbTarget' = PeerId
                  => UNCHANGED << conversationHistory, pendingWorkspaceAction >>
             /\ cbTarget' = SessionId
                  => UNCHANGED << peerHistory, peerPending >>
     /\ (cbPc = "tts" /\ cbPc' = "idle")
          => /\ cbTarget' = cbTarget
             /\ UNCHANGED << conversationHistory, peerHistory >>
             /\ cbTarget = PeerId
                  => peerPending' = NoAction /\ UNCHANGED pendingWorkspaceAction
             /\ cbTarget = SessionId
                  => pendingWorkspaceAction' = NoAction /\ UNCHANGED peerPending
    ]_vars

\* C32 witness: with an action pending in both sessions, a callback with an
\* unknown id was resolved to the other client's session, inserted first; its
\* reply is over and this session's action is still pending.
C32_Witness ==
  /\ cbTarget = PeerId
  /\ peerFirst
  /\ registered
  /\ peerRegistered
  /\ pendingWorkspaceAction # NoAction
  /\ peerPending = NoAction
  /\ peerHistory # << >>
  /\ "clear" \in LogOps(cbLog)

\* ------------------------------------------ a second call-start on a connection
\* Calls started one after another on one connection, with or without a
\* call-end in between, while transcript events arrive on the connection in use
\* and on the one it replaced and the turns they start run to their end.
RecallNext ==
  \/ CallStart
  \/ CallConnected
  \/ CallEnd
  \/ CallStartAgain
  \/ \E data \in CoreEvents : OnTranscript(data)
  \/ \E data \in CoreEvents : OnEarlierTranscript(data)
  \/ \E t \in Turns : StreamEnd(t)
  \/ \E t \in Turns : WorkerEnd(t)
  \/ \E t \in Turns : Join(t)

SpecRecall == PolicyInit /\ [][RecallNext]_vars

\* C39: after a second call-start on a connection, the earlier call's handler
\* starts no more turns, so a turn started by the earlier call's handler and a
\* turn started by the later call's handler never run at the same time.
C39_TurnsOfDifferentCallsDisjoint ==
  \A t1 \in earlier.turns, t2 \in Turns \ earlier.turns :
    ~(Running(t1) /\ Running(t2))

\* the earlier handler starts no turn once it has been replaced
C39_EarlierStartsNoTurn ==
  [][earlier.replaced => earlier'.turns = earlier.turns]_vars

\* no overlap when a call-end closed the earlier connection and no turn of the
\* earlier call was still running at the second call-start
C39_OverlapNeedsOpenOrRunning ==
  (~earlier.open /\ \A t \in earlier.turns : ~Running(t))
    => C39_TurnsOfDifferentCallsDisjoint

====
